---- MODULE Spec2Model ----
(***************************************************************************)
(* A model of the save-state reconciliation engine of the Bitburner save   *)
(* editor: the FileStore (format codec, baseline/working document store,   *)
(* entity projections, mutation and revert operations) and the section     *)
(* handlers that drive it.                                                  *)
(*                                                                          *)
(* JavaScript objects are modelled as ORDERED maps (sequences of           *)
(* <<key, value>> pairs), because JSON.stringify, on which hasChanges      *)
(* rests, serialises keys in insertion order.                              *)
(***************************************************************************)
EXTENDS Integers, Sequences, FiniteSets, TLC

VARIABLES
    file,          \* FileStore._file: the id of the remembered File, or NoFile
    originalSave,  \* FileStore.originalSave (baseline), or NoSave
    modifiedSave,  \* FileStore.modifiedSave (working), or NoSave
    arrayOwner,    \* which array objects working's augmentation fields point to
    loads,         \* the uploadFile calls so far, in order: the file of each and
                   \* whether its processFile has resumed from its await
    download,      \* what the last downloadFile call produced
    confirmDialog, \* AugmentationsSection's confirmDialog state, or NoDialog
    uncaught,      \* the handlers that have ended in an uncaught exception
    pendingSync    \* the updateServer calls the running handler has still to make

vars == <<file, originalSave, modifiedSave, arrayOwner, loads, download,
          confirmDialog, uncaught, pendingSync>>

(***************************************************************************)
(* Bounds of the model.                                                     *)
(***************************************************************************)
MaxUploads == 3

(***************************************************************************)
(* JavaScript values.                                                       *)
(***************************************************************************)
NoFile == "undefined"
NoSave == [ctor |-> "undefined"]
Null == [kind |-> "null"]
Ok(v) == [ok |-> TRUE, val |-> v]
Throw == [ok |-> FALSE]

\* ordered maps: a JavaScript object as the sequence of its own properties
OHas(o, k) == \E i \in 1..Len(o) : o[i][1] = k
OGet(o, k) == o[CHOOSE i \in 1..Len(o) : o[i][1] = k][2]
OPut(o, k, v) ==
    IF OHas(o, k)
    THEN [i \in 1..Len(o) |-> IF o[i][1] = k THEN <<k, v>> ELSE o[i]]
    ELSE Append(o, <<k, v>>)
ODel(o, k) == SelectSeq(o, LAMBDA p : p[1] # k)
RECURSIVE OAssign(_, _)
OAssign(o, u) ==
    IF u = <<>> THEN o ELSE OAssign(OPut(o, Head(u)[1], Head(u)[2]), Tail(u))
\* the object as an unordered map: what a structural comparison looks at
OSet(o) == {o[i] : i \in 1..Len(o)}

\* arrays
Includes(arr, x) == \E i \in 1..Len(arr) : arr[i] = x
Count(arr, x) == Cardinality({i \in 1..Len(arr) : arr[i] = x})

(***************************************************************************)
(* The container schema.                                                    *)
(***************************************************************************)
BitburnerSaveObject == "BitburnerSaveObject"
EditSaveFile == "EditSaveFile"
NeuroFlux == "NeuroFlux Governor"

SaveDataKey ==
    << "PlayerSave", "FactionsSave", "AllServersSave", "CompaniesSave",
       "AliasesSave", "GlobalAliasesSave", "StockMarketSave", "SettingsSave",
       "VersionSave", "AllGangsSave", "LastExportBonus", "StaneksGiftSave",
       "GoSave", "InfiltrationsSave" >>
SaveDataKeys == {SaveDataKey[i] : i \in 1..Len(SaveDataKey)}

(***************************************************************************)
(* The three wire encodings.  A text or byte string is a tagged value, so  *)
(* that parsing the wrong encoding fails and a round trip is not an        *)
(* identity by construction.                                                *)
(***************************************************************************)
EmptyText == [kind |-> "empty"]
Garbage == [kind |-> "garbage"]
JSONstringify(v) == [kind |-> "json", value |-> v]
JSONparse(t) == IF t.kind = "json" THEN Ok(t.value) ELSE Throw
Base64Encode(t) == [kind |-> "base64", of |-> t]
Base64Decode(t) == IF t.kind = "base64" THEN t.of ELSE Garbage
Gzip(t) == [kind |-> "gzip", of |-> t]
Ungzip(b) == IF b.kind = "gzip" THEN Ok(b.of) ELSE Throw
\* File.text(): compressed bytes read as text are no text of either encoding
ReadAsText(b) == IF b.kind = "gzip" THEN Garbage ELSE b
\* JSON.parse(JSON.stringify(x)): a deep copy
DeepClone(v) == JSONparse(JSONstringify(v)).val

(***************************************************************************)
(* File names, as sequences of tokens.                                      *)
(***************************************************************************)
DigitTokens == {"1700000000"}
BitNodeTokens == {"BN1x1", "BN2x3"}
EndsWithGz(name) == Len(name) > 0 /\ name[Len(name)] = ".gz"
\* name.match(/bitburnerSave_(?<ts>\d+)_(?<bn>BN.+?)(?:-H4CKeD)*?\.json/)
MatchAt(name, i) ==
    /\ i + 4 <= Len(name)
    /\ name[i] = "bitburnerSave_"
    /\ name[i + 1] \in DigitTokens
    /\ name[i + 2] = "_"
    /\ name[i + 3] \in BitNodeTokens
    /\ \E j \in (i + 4)..Len(name) :
          /\ name[j] = ".json"
          /\ \A k \in (i + 4)..(j - 1) : name[k] = "-H4CKeD"
NameMatch(name) ==
    IF \E i \in 1..Len(name) : MatchAt(name, i)
    THEN Ok(name[(CHOOSE i \in 1..Len(name) : MatchAt(name, i)) + 3])
    ELSE Throw

(***************************************************************************)
(* processFile (after its await) and setSaveData.                           *)
(***************************************************************************)
\* the text of the file: the .gz branch inflates, the other reads text
FileText(name, bytes) ==
    IF EndsWithGz(name) THEN Ungzip(bytes) ELSE Ok(ReadAsText(bytes))
\* JSON.parse, and on failure base64 decoding followed by JSON.parse
ParseRaw(text) ==
    IF JSONparse(text).ok THEN JSONparse(text)
    ELSE JSONparse(Base64Decode(text))
\* the loop over Object.values(SaveDataKey)
SectionOk(raw, key) ==
    \/ key \notin DOMAIN raw.data
    \/ raw.data[key].kind = "empty"
    \/ JSONparse(raw.data[key]).ok
ParseSection(raw, key) ==
    IF key \notin DOMAIN raw.data \/ raw.data[key].kind = "empty"
    THEN Null
    ELSE JSONparse(raw.data[key]).val
ParseSections(raw) ==
    IF \A key \in SaveDataKeys : SectionOk(raw, key)
    THEN Ok([key \in SaveDataKeys |-> ParseSection(raw, key)])
    ELSE Throw
\* the check of the container's type tag
TagOk_AnyTag(raw) == raw.kind = "raw"
TagOk(raw) == raw.kind = "raw" /\ raw.ctor = BitburnerSaveObject
\* decoding up to the SaveData object handed to setSaveData
Decode(name, bytes) ==
    LET text == FileText(name, bytes) IN
    IF ~text.ok THEN Throw
    ELSE LET raw == ParseRaw(text.val) IN
         IF ~raw.ok THEN Throw
         ELSE IF ~TagOk(raw.val) THEN Throw
         ELSE LET data == ParseSections(raw.val) IN
              IF ~data.ok THEN Throw
              ELSE Ok([ctor |-> BitburnerSaveObject, data |-> data.val])
\* the exploit marker, pushed onto modifiedSave only, after setSaveData
HasPlayerData(save) == save.data["PlayerSave"].kind # "null"
PlayerOf(save) == save.data["PlayerSave"].data
WithPlayer(save, d) ==
    [save EXCEPT !.data["PlayerSave"] = [@ EXCEPT !.data = d]]
MarkerThrows(save) ==
    HasPlayerData(save) /\ "exploits" \notin DOMAIN PlayerOf(save)
PushMarker(save) ==
    IF HasPlayerData(save) /\ ~Includes(PlayerOf(save).exploits, EditSaveFile)
    THEN WithPlayer(save, [PlayerOf(save) EXCEPT !.exploits = Append(@, EditSaveFile)])
    ELSE save
\* setSaveData: two independent deep copies
SetSaveData(save) ==
    [originalSave |-> DeepClone(save), modifiedSave |-> DeepClone(save)]
\* what processFile leaves in the store: ok with both saves, or the catch branch
ProcessOutcome(name, bytes) ==
    LET saveData == Decode(name, bytes) IN
    IF ~saveData.ok THEN Throw
    ELSE IF MarkerThrows(saveData.val) THEN Throw
    ELSE LET stored == SetSaveData(saveData.val) IN
         Ok([stored EXCEPT !.modifiedSave = PushMarker(@)])

(***************************************************************************)
(* Sample documents.                                                        *)
(***************************************************************************)
Obj(entries) == [kind |-> "object", entries |-> entries]
PlayerData(exploits, factions, invitations, installed, queued, purchased, jobs) ==
    [exploits |-> exploits, factions |-> factions,
     factionInvitations |-> invitations,
     augmentations |-> installed, queuedAugmentations |-> queued,
     purchasedServers |-> purchased, jobs |-> jobs]
PlayerSaveOf(d) == [kind |-> "object", ctor |-> "PlayerObject", data |-> d]
Sections(player, factions, servers, companies) ==
    [key \in SaveDataKeys |->
        CASE key = "PlayerSave" -> player
          [] key = "FactionsSave" -> factions
          [] key = "AllServersSave" -> servers
          [] key = "CompaniesSave" -> companies
          [] key = "AliasesSave" -> Obj(<<>>)
          [] key = "SettingsSave" -> Obj(<< <<"MaxRecentScriptsCapacity", 50>> >>)
          [] key = "VersionSave" -> [kind |-> "number", value |-> 43]
          [] OTHER -> Null]
\* the wire form of a container: every section stringified on its own
RawOf(ctor, sections, keys) ==
    [kind |-> "raw", ctor |-> ctor,
     data |-> [key \in keys |->
                 IF sections[key].kind = "null" THEN EmptyText
                 ELSE JSONstringify(sections[key])]]

Aug(name, level) == [name |-> name, level |-> level]
FlatFaction(fields) == [shape |-> "flat", fields |-> fields]
NestedFaction(fields) == [shape |-> "nested", fields |-> fields]

ServerRecord(hostname, organizationName, maxRam, purchasedByPlayer) ==
    [shape |-> "nested",
     fields |-> << <<"hostname", hostname>>, <<"organizationName", organizationName>>,
                   <<"maxRam", maxRam>>, <<"cpuCores", 1>>,
                   <<"hackDifficulty", 1>>, <<"minDifficulty", 1>>,
                   <<"moneyAvailable", 0>>, <<"moneyMax", 0>>,
                   <<"requiredHackingSkill", 1>>, <<"hasAdminRights", TRUE>>,
                   <<"backdoorInstalled", FALSE>>,
                   <<"purchasedByPlayer", purchasedByPlayer>> >>]
\* the game's own layout: home carries the purchased flag although it is not in
\* the player's list, and n00dles has less RAM than the card's select offers
ServersHome ==
    Obj(<< <<"home", ServerRecord("home", "Home PC", 8, TRUE)>>,
           <<"n00dles", ServerRecord("n00dles", "Noodle Bar", 4, FALSE)>>,
           <<"pserv-0", ServerRecord("pserv-0", "", 8, TRUE)>> >>)
\* every flag agrees with the player's list
ServersAgree ==
    Obj(<< <<"n00dles", ServerRecord("n00dles", "Noodle Bar", 4, FALSE)>>,
           <<"pserv-0", ServerRecord("pserv-0", "", 8, TRUE)>>,
           <<"pserv-1", ServerRecord("pserv-1", "", 16, TRUE)>> >>)

JobsAB == << <<"ECorp", "Intern">>, <<"MegaCorp", "Engineer">> >>
FactionsAB ==
    Obj(<< <<"CyberSec", FlatFaction(<< <<"playerReputation", 500>>, <<"favor", 10>> >>)>>,
           <<"NiteSec", NestedFaction(<< <<"playerReputation", 0>>, <<"favor", 0>>,
                                         <<"isMember", FALSE>> >>)>> >>)
\* three factions, all joined
FactionsABC ==
    Obj(<< <<"CyberSec", FlatFaction(<< <<"playerReputation", 500>>, <<"favor", 10>> >>)>>,
           <<"NiteSec", FlatFaction(<< <<"playerReputation", 300>>, <<"favor", 0>> >>)>>,
           <<"BitRunners", FlatFaction(<< <<"playerReputation", 100>>, <<"favor", 0>> >>)>> >>)
CompaniesZero ==
    Obj(<< <<"ECorp", << <<"favor", 0>>, <<"playerReputation", 0>> >> >>,
           <<"MegaCorp", << <<"favor", 3>>, <<"playerReputation", 100>> >> >> >>)
CompaniesNonZero ==
    Obj(<< <<"MegaCorp", << <<"favor", 3>>, <<"playerReputation", 100>> >> >> >>)

PlayerMarked ==
    PlayerSaveOf(PlayerData(<<"Bypass", EditSaveFile>>, <<"CyberSec">>, <<"NiteSec">>,
                            <<Aug(NeuroFlux, 1)>>, <<>>, <<>>, JobsAB))
PlayerUnmarked ==
    PlayerSaveOf(PlayerData(<<"Bypass">>, <<"CyberSec">>, <<>>,
                            <<>>, <<>>, <<>>, JobsAB))
PlayerThree ==
    PlayerSaveOf(PlayerData(<<"Bypass", EditSaveFile>>,
                            <<"CyberSec", "NiteSec", "BitRunners">>, <<>>,
                            <<>>, <<>>, <<>>, JobsAB))
\* a player with ordinary augmentations next to NeuroFlux
PlayerAugs ==
    PlayerSaveOf(PlayerData(<<"Bypass", EditSaveFile>>, <<"CyberSec">>, <<>>,
                            <<Aug(NeuroFlux, 1), Aug("Bionic Arms", 1),
                              Aug("Graphene Bionic Arms Upgrade", 1)>>,
                            <<Aug("BitWire", 1)>>, <<>>, JobsAB))
\* a hand-edited player: two installed NeuroFlux records, BitWire both installed
\* and queued, and the Graphene upgrade installed without its prerequisite
PlayerIrregular ==
    PlayerSaveOf(PlayerData(<<"Bypass", EditSaveFile>>, <<"CyberSec">>, <<>>,
                            <<Aug(NeuroFlux, 1), Aug("BitWire", 1), Aug(NeuroFlux, 2),
                              Aug("Graphene Bionic Arms Upgrade", 1)>>,
                            <<Aug("BitWire", 1)>>, <<>>, JobsAB))
\* a player with a chain of three augmentations, each the prerequisite of the next
PlayerChain ==
    PlayerSaveOf(PlayerData(<<"Bypass", EditSaveFile>>, <<"CyberSec">>, <<>>,
                            <<Aug("Combat Rib I", 1), Aug("Combat Rib II", 1),
                              Aug("Combat Rib III", 1)>>,
                            <<>>, <<>>, JobsAB))
\* a player who owns one purchased server
PlayerServers ==
    PlayerSaveOf(PlayerData(<<"Bypass", EditSaveFile>>, <<"CyberSec">>, <<>>,
                            <<>>, <<>>, <<"pserv-0">>, JobsAB))
\* a player who owns two purchased servers
PlayerTwoServers ==
    PlayerSaveOf(PlayerData(<<"Bypass", EditSaveFile>>, <<"CyberSec">>, <<>>,
                            <<>>, <<>>, <<"pserv-0", "pserv-1">>, JobsAB))
PlayerNoExploits ==
    PlayerSaveOf([factions |-> <<>>, factionInvitations |-> <<>>, jobs |-> <<>>])

TreeMarked == Sections(PlayerMarked, FactionsAB, Null, CompaniesNonZero)
TreeUnmarked == Sections(PlayerUnmarked, FactionsAB, Null, CompaniesNonZero)
TreeZeroCompany == Sections(PlayerMarked, FactionsAB, Null, CompaniesZero)
TreeThree == Sections(PlayerThree, FactionsABC, Null, CompaniesNonZero)
TreeAugs == Sections(PlayerAugs, FactionsAB, Null, CompaniesNonZero)
TreeIrregular == Sections(PlayerIrregular, FactionsAB, Null, CompaniesNonZero)
TreeChain == Sections(PlayerChain, FactionsAB, Null, CompaniesNonZero)
TreeServers == Sections(PlayerServers, FactionsAB, ServersHome, CompaniesNonZero)
TreeAgree == Sections(PlayerTwoServers, FactionsAB, ServersAgree, CompaniesNonZero)
TreeNoPlayer == Sections(Null, Null, Null, Null)
TreeNoExploits == Sections(PlayerNoExploits, FactionsAB, Null, Null)

TextOf(tree) == JSONstringify(RawOf(BitburnerSaveObject, tree, SaveDataKeys))

NameGz == <<"bitburnerSave_", "1700000000", "_", "BN1x1", ".json", ".gz">>
NameJson == <<"bitburnerSave_", "1700000000", "_", "BN2x3", ".json">>
NameHacked == <<"bitburnerSave_", "1700000000", "_", "BN1x1", "-H4CKeD", ".json">>
NameOther == <<"save", ".json">>

File(name, bytes) == [name |-> name, bytes |-> bytes]
\* every file the model can upload, by id
Files ==
    [gzUnmarked   |-> File(NameGz, Gzip(TextOf(TreeUnmarked))),
     gzMarked     |-> File(NameGz, Gzip(TextOf(TreeMarked))),
     b64Unmarked  |-> File(NameJson, Base64Encode(TextOf(TreeUnmarked))),
     b64Zero      |-> File(NameHacked, Base64Encode(TextOf(TreeZeroCompany))),
     b64Three     |-> File(NameJson, Base64Encode(TextOf(TreeThree))),
     b64Augs      |-> File(NameJson, Base64Encode(TextOf(TreeAugs))),
     b64Irregular |-> File(NameJson, Base64Encode(TextOf(TreeIrregular))),
     b64Chain     |-> File(NameJson, Base64Encode(TextOf(TreeChain))),
     b64Servers   |-> File(NameJson, Base64Encode(TextOf(TreeServers))),
     b64Agree     |-> File(NameJson, Base64Encode(TextOf(TreeAgree))),
     plainMarked  |-> File(NameJson, TextOf(TreeMarked)),
     plainUnmarked |-> File(NameJson, TextOf(TreeUnmarked)),
     plainNoPlayer |-> File(NameJson, TextOf(TreeNoPlayer)),
     plainOldKeys |-> File(NameJson,
                        JSONstringify(RawOf(BitburnerSaveObject, TreeUnmarked,
                                            SaveDataKeys \ {"GoSave", "InfiltrationsSave"}))),
     otherName    |-> File(NameOther, Base64Encode(TextOf(TreeMarked))),
     badTag       |-> File(NameJson, JSONstringify(RawOf("Other", TreeMarked, SaveDataKeys))),
     badSection   |-> File(NameJson,
                        JSONstringify([RawOf(BitburnerSaveObject, TreeMarked, SaveDataKeys)
                                         EXCEPT !.data["FactionsSave"] = Garbage])),
     noExploits   |-> File(NameJson, TextOf(TreeNoExploits)),
     garbage      |-> File(NameJson, Garbage),
     gzAsJson     |-> File(NameJson, Gzip(TextOf(TreeMarked))),
     jsonAsGz     |-> File(NameGz, TextOf(TreeMarked))]
FileIds == DOMAIN Files
Outcome(f) == ProcessOutcome(Files[f].name, Files[f].bytes)
ValidFiles == {f \in FileIds : Outcome(f).ok}
InvalidFiles == FileIds \ ValidFiles

(***************************************************************************)
(* The FileStore: getters.                                                  *)
(***************************************************************************)
ready == modifiedSave # NoSave
save == modifiedSave
hasChanges ==
    IF originalSave = NoSave \/ modifiedSave = NoSave THEN FALSE
    ELSE JSONstringify(originalSave) # JSONstringify(modifiedSave)
player == PlayerOf(save)
originalPlayer == PlayerOf(originalSave)

\* working's augmentation arrays are its own objects after every deep copy
OwnArrays == [augmentations |-> "working", queuedAugmentations |-> "working"]

(***************************************************************************)
(* Loading: uploadFile, processFile, clearFile.                             *)
(***************************************************************************)
NoDownload == [status |-> "none"]
NoDialog == [augName |-> "null"]
NonePending == \A i \in 1..Len(loads) : loads[i].done

Init ==
    /\ file = NoFile
    /\ originalSave = NoSave
    /\ modifiedSave = NoSave
    /\ arrayOwner = OwnArrays
    /\ loads = <<>>
    /\ download = NoDownload
    /\ confirmDialog = NoDialog
    /\ uncaught = {}
    /\ pendingSync = <<>>

\* uploadFile up to the await inside processFile: clearFile, remember the file,
\* start reading it
uploadFile(f) ==
    /\ Len(loads) < MaxUploads
    /\ loads' = Append(loads, [file |-> f, done |-> FALSE])
    /\ file' = f
    /\ originalSave' = NoSave
    /\ modifiedSave' = NoSave
    /\ arrayOwner' = OwnArrays
    /\ confirmDialog' = NoDialog
    /\ UNCHANGED <<download, uncaught, pendingSync>>

\* processFile from its await to its end: decode and install, or alert and clearFile
processFile(i) ==
    /\ i \in 1..Len(loads)
    /\ ~loads[i].done
    /\ loads' = [loads EXCEPT ![i].done = TRUE]
    /\ IF Outcome(loads[i].file).ok
       THEN /\ originalSave' = Outcome(loads[i].file).val.originalSave
            /\ modifiedSave' = Outcome(loads[i].file).val.modifiedSave
            /\ UNCHANGED <<file, confirmDialog>>
       ELSE /\ file' = NoFile
            /\ originalSave' = NoSave
            /\ modifiedSave' = NoSave
            /\ confirmDialog' = NoDialog
    /\ arrayOwner' = OwnArrays
    /\ UNCHANGED <<download, uncaught, pendingSync>>

\* revertChanges: a fresh deep copy of the baseline; its button is drawn while
\* hasChanges
Reverted_Marked(original) == PushMarker(DeepClone(original))
Reverted(original) == DeepClone(original)
revertChanges ==
    /\ ready /\ hasChanges
    /\ originalSave # NoSave
    /\ modifiedSave' = Reverted(originalSave)
    /\ arrayOwner' = OwnArrays
    /\ UNCHANGED <<file, originalSave, loads, download, confirmDialog, uncaught, pendingSync>>

(***************************************************************************)
(* Export: downloadFile.                                                    *)
(***************************************************************************)
NonZero(fields, key) == ~OHas(fields, key) \/ OGet(fields, key) # 0
FilteredCompanies(companies) ==
    Obj(SelectSeq(companies.entries,
                  LAMBDA e : NonZero(e[2], "playerReputation") \/ NonZero(e[2], "favor")))
ExportSection(s, key) ==
    IF s.data[key].kind = "null" THEN EmptyText
    ELSE IF key = "CompaniesSave" THEN JSONstringify(FilteredCompanies(s.data[key]))
    ELSE IF key = "PlayerSave" THEN JSONstringify(DeepClone(s.data[key]))
    ELSE JSONstringify(s.data[key])
ExportJson(s) ==
    JSONstringify([kind |-> "raw", ctor |-> BitburnerSaveObject,
                   data |-> [key \in SaveDataKeys |-> ExportSection(s, key)]])
ExportBlob(name, jsonString) ==
    IF EndsWithGz(name) THEN Gzip(jsonString) ELSE Base64Encode(jsonString)
ExportName(name, bn) ==
    <<"bitburnerSave_", "NOW", "_", bn, "-H4CKeD">>
        \o (IF EndsWithGz(name) THEN <<".json", ".gz">> ELSE <<".json">>)
TypeError == [status |-> "TypeError"]
Downloaded(s, name) ==
    IF ~NameMatch(name).ok THEN TypeError
    ELSE [status |-> "ok",
          blob |-> ExportBlob(name, ExportJson(s)),
          name |-> ExportName(name, NameMatch(name).val)]
\* the Download button is enabled while hasChanges
downloadFile ==
    /\ ready /\ hasChanges
    /\ download' = IF file = NoFile THEN TypeError
                   ELSE Downloaded(save, Files[file].name)
    /\ UNCHANGED <<file, originalSave, modifiedSave, arrayOwner, loads,
                   confirmDialog, uncaught, pendingSync>>

(***************************************************************************)
(* Jobs.                                                                    *)
(***************************************************************************)
Companies == {"ECorp", "MegaCorp"}
JobTitles == {"Intern", "Engineer"}
UpdatePlayer(field, value) ==
    modifiedSave' = WithPlayer(modifiedSave, [player EXCEPT ![field] = value])
Editable == ready /\ HasPlayerData(save)
updateJob(company, jobTitle) ==
    /\ Editable
    /\ UpdatePlayer("jobs", OPut(player.jobs, company, jobTitle))
    /\ UNCHANGED <<file, originalSave, arrayOwner, loads, download,
                   confirmDialog, uncaught, pendingSync>>
deleteJob(company) ==
    /\ Editable
    /\ UpdatePlayer("jobs", ODel(player.jobs, company))
    /\ UNCHANGED <<file, originalSave, arrayOwner, loads, download,
                   confirmDialog, uncaught, pendingSync>>

(***************************************************************************)
(* Factions: the projection.                                                *)
(***************************************************************************)
FieldOr(fields, key, default) == IF OHas(fields, key) THEN OGet(fields, key) ELSE default
FactionEntries(s) ==
    IF s.data["FactionsSave"].kind = "null" THEN <<>> ELSE s.data["FactionsSave"].entries
\* one element of parseFactionsData's map(): the player lists decide membership
\* and invitation; the entry's own flags count only where a list is missing
FactionView(s, name, entry) ==
    LET data == entry.fields
        playerData == PlayerOf(s)
    IN [name |-> name,
        playerReputation |-> FieldOr(data, "playerReputation", 0),
        favor |-> FieldOr(data, "favor", 0),
        alreadyInvited |->
            IF "factionInvitations" \in DOMAIN playerData
            THEN Includes(playerData.factionInvitations, name)
            ELSE FieldOr(data, "alreadyInvited", FALSE),
        isMember |->
            IF "factions" \in DOMAIN playerData
            THEN Includes(playerData.factions, name)
            ELSE FieldOr(data, "isMember", FALSE),
        isBanned |-> FieldOr(data, "isBanned", FALSE)]
\* Array.prototype.sort with (a, b) => repB - repA: stable, descending
RECURSIVE InsertByReputation(_, _)
InsertByReputation(sorted, x) ==
    IF sorted = <<>> THEN <<x>>
    ELSE IF Head(sorted)[2].playerReputation >= x[2].playerReputation
    THEN <<Head(sorted)>> \o InsertByReputation(Tail(sorted), x)
    ELSE <<x>> \o sorted
RECURSIVE SortByReputation(_)
SortByReputation(list) ==
    IF list = <<>> THEN <<>>
    ELSE InsertByReputation(SortByReputation(SubSeq(list, 1, Len(list) - 1)),
                            list[Len(list)])
parseFactionsData(s) ==
    SortByReputation([i \in 1..Len(FactionEntries(s)) |->
        <<FactionEntries(s)[i][1],
          FactionView(s, FactionEntries(s)[i][1], FactionEntries(s)[i][2])>>])
\* the factions getter: data and originalData
factionsData == parseFactionsData(save)
factionsOriginalData ==
    IF originalSave = NoSave THEN <<>> ELSE parseFactionsData(originalSave)

(***************************************************************************)
(* Factions: updateFaction.                                                 *)
(***************************************************************************)
FlagKeys == {"isMember", "alreadyInvited", "isBanned"}
NumberKeys == {"playerReputation", "favor"}
\* the forEach over Object.keys(updates): st.target is the entry (keys may be
\* deleted from it), st.filtered the updates kept, st.deleted the flag
FilterStep(st, originalTarget, key, value) ==
    IF key \in FlagKeys
    THEN IF value = TRUE
         THEN IF OHas(originalTarget, key) \/ OHas(st.target, key)
              THEN [st EXCEPT !.filtered = OPut(@, key, TRUE)]
              ELSE st
         ELSE IF OHas(originalTarget, key)
              THEN [st EXCEPT !.filtered = OPut(@, key, FALSE)]
              ELSE IF OHas(st.target, key)
              THEN [st EXCEPT !.target = ODel(@, key), !.deleted = TRUE]
              ELSE st
    ELSE IF key \in NumberKeys
    THEN IF value = 0 /\ ~OHas(originalTarget, key)
         THEN IF OHas(st.target, key)
              THEN [st EXCEPT !.target = ODel(@, key), !.deleted = TRUE]
              ELSE st
         ELSE [st EXCEPT !.filtered = OPut(@, key, value)]
    ELSE [st EXCEPT !.filtered = OPut(@, key, value)]
RECURSIVE FilterUpdates(_, _, _)
FilterUpdates(st, originalTarget, updates) ==
    IF updates = <<>> THEN st
    ELSE FilterUpdates(FilterStep(st, originalTarget, Head(updates)[1], Head(updates)[2]),
                       originalTarget, Tail(updates))
\* the entry's fields after the write of reputation, favor and flags
TargetAfter(target, originalTarget, updates) ==
    LET st == FilterUpdates([target |-> target, filtered |-> <<>>, deleted |-> FALSE],
                            originalTarget, updates)
        changed ==
            \/ st.deleted
            \/ \E i \in 1..Len(st.filtered) :
                  \/ ~OHas(st.target, st.filtered[i][1])
                  \/ OGet(st.target, st.filtered[i][1]) # st.filtered[i][2]
    IN IF changed THEN OAssign(st.target, st.filtered) ELSE st.target

\* Array.from(new Set(arr))
RECURSIVE Dedupe(_)
Dedupe(arr) ==
    IF arr = <<>> THEN <<>>
    ELSE LET init == Dedupe(SubSeq(arr, 1, Len(arr) - 1)) IN
         IF Includes(init, arr[Len(arr)]) THEN init ELSE Append(init, arr[Len(arr)])
Without(arr, item) == SelectSeq(arr, LAMBDA f : f # item)
\* indexOf, zero-based, -1 when absent
IndexOf(arr, item) ==
    IF Includes(arr, item)
    THEN (CHOOSE i \in 1..Len(arr) : arr[i] = item /\ \A j \in 1..(i - 1) : arr[j] # item) - 1
    ELSE -1
insertAtOriginalIndex(arr, item, originalArr) ==
    LET withoutItem == Without(arr, item)
        originalIndex == IndexOf(originalArr, item)
    IN IF originalIndex = -1 \/ originalIndex >= Len(withoutItem)
       THEN Append(withoutItem, item)
       ELSE SubSeq(withoutItem, 1, originalIndex) \o <<item>>
                \o SubSeq(withoutItem, originalIndex + 1, Len(withoutItem))
\* player.factions after the isMember part of updateFaction
MemberListAfter_NoRemoval(playerFactions, originalFactions, faction, updates) ==
    IF ~OHas(updates, "isMember") THEN playerFactions
    ELSE IF OGet(updates, "isMember") = Includes(playerFactions, faction) THEN playerFactions
    ELSE IF OGet(updates, "isMember")
    THEN insertAtOriginalIndex(Dedupe(playerFactions), faction, originalFactions)
    ELSE playerFactions
MemberListAfter(playerFactions, originalFactions, faction, updates) ==
    IF ~OHas(updates, "isMember") THEN playerFactions
    ELSE IF OGet(updates, "isMember") = Includes(playerFactions, faction) THEN playerFactions
    ELSE IF OGet(updates, "isMember")
    THEN insertAtOriginalIndex(Dedupe(playerFactions), faction, originalFactions)
    ELSE Without(playerFactions, faction)
\* player.factionInvitations after the alreadyInvited part of updateFaction
InvitationListAfter_NoRemoval(playerInvitations, originalInvitations, faction, updates) ==
    IF ~OHas(updates, "alreadyInvited") THEN playerInvitations
    ELSE IF OGet(updates, "alreadyInvited") = Includes(playerInvitations, faction)
    THEN playerInvitations
    ELSE IF OGet(updates, "alreadyInvited") /\ ~FieldOr(updates, "isMember", FALSE)
    THEN insertAtOriginalIndex(Dedupe(playerInvitations), faction, originalInvitations)
    ELSE playerInvitations
InvitationListAfter(playerInvitations, originalInvitations, faction, updates) ==
    IF ~OHas(updates, "alreadyInvited") THEN playerInvitations
    ELSE IF OGet(updates, "alreadyInvited") = Includes(playerInvitations, faction)
    THEN playerInvitations
    ELSE IF OGet(updates, "alreadyInvited") /\ ~FieldOr(updates, "isMember", FALSE)
    THEN insertAtOriginalIndex(Dedupe(playerInvitations), faction, originalInvitations)
    ELSE Without(playerInvitations, faction)
\* the whole of updateFaction, as the working copy it leaves
FactionUpdated(s, original, faction, updates) ==
    LET entries == FactionEntries(s)
        entry == OGet(entries, faction)
        originalTarget ==
            IF OHas(FactionEntries(original), faction)
            THEN OGet(FactionEntries(original), faction).fields
            ELSE <<>>
        newEntry == [entry EXCEPT !.fields = TargetAfter(@, originalTarget, updates)]
        written == [s EXCEPT !.data["FactionsSave"].entries = OPut(entries, faction, newEntry)]
        pd == PlayerOf(s)
        od == PlayerOf(original)
    IN WithPlayer(written,
         [pd EXCEPT
            !.factions = MemberListAfter(@, od.factions, faction, updates),
            !.factionInvitations =
                InvitationListAfter(@, od.factionInvitations, faction, updates)])
\* with no entry for the name, factionData is undefined and reading
\* factionData.data throws before anything is written
updateFaction(faction, updates) ==
    /\ Editable
    /\ IF OHas(FactionEntries(save), faction)
       THEN /\ modifiedSave' = FactionUpdated(save, originalSave, faction, updates)
            /\ UNCHANGED uncaught
       ELSE /\ uncaught' = uncaught \cup {"updateFaction"}
            /\ UNCHANGED modifiedSave
    /\ UNCHANGED <<file, originalSave, arrayOwner, loads, download, confirmDialog,
                   pendingSync>>

(***************************************************************************)
(* Factions: the handlers of the Faction card.                              *)
(***************************************************************************)
ViewOf(list, name) == OGet(list, name)
Statuses == {"none", "invited", "joined"}
onStatusChange(id, value) ==
    updateFaction(id, << <<"alreadyInvited", value = "invited">>,
                         <<"isMember", value = "joined">> >>)
\* the form is closed with the reputation, favor and banned flag typed into it;
\* the two status flags are those of the card's state
onClose(id, playerReputation, favor, isBanned) ==
    /\ ready
    /\ OHas(factionsData, id)
    /\ updateFaction(id, << <<"alreadyInvited", ViewOf(factionsData, id).alreadyInvited>>,
                            <<"isMember", ViewOf(factionsData, id).isMember>>,
                            <<"isBanned", isBanned>>,
                            <<"playerReputation", playerReputation>>,
                            <<"favor", favor>> >>)
\* the Revert button is drawn on a card that differs from its baseline
FactionHandleRevert(id) ==
    /\ ready
    /\ OHas(factionsOriginalData, id)
    /\ OHas(factionsData, id)
    /\ ViewOf(factionsData, id) # ViewOf(factionsOriginalData, id)
    /\ LET originalFaction == ViewOf(factionsOriginalData, id) IN
       updateFaction(id, << <<"playerReputation", originalFaction.playerReputation>>,
                            <<"favor", originalFaction.favor>>,
                            <<"isBanned", originalFaction.isBanned>>,
                            <<"alreadyInvited", originalFaction.alreadyInvited>>,
                            <<"isMember", originalFaction.isMember>> >>)

(***************************************************************************)
(* NeuroFlux Governor.                                                      *)
(***************************************************************************)
MaxLevel == 2
NeuroFluxCap == 10000
LevelInputs == -1..MaxLevel
Max(a, b) == IF a >= b THEN a ELSE b
Min(a, b) == IF a <= b THEN a ELSE b
ArrayOr(d, field) == IF field \in DOMAIN d THEN d[field] ELSE <<>>
IsNeuroFlux(a) == a.name = NeuroFlux
\* filter(NeuroFlux).reduce((max, a) => Math.max(max, a.level), start)
RECURSIVE MaxLevelFrom(_, _)
MaxLevelFrom(start, augs) ==
    IF augs = <<>> THEN start
    ELSE MaxLevelFrom(IF IsNeuroFlux(Head(augs)) THEN Max(start, Head(augs).level) ELSE start,
                      Tail(augs))
HasNeuroFlux(augs) == \E i \in 1..Len(augs) : IsNeuroFlux(augs[i])
\* the levels the NeuroFlux card shows: the highest installed level, and the
\* highest queued level or, with nothing queued, the installed one
neurofluxData ==
    LET installed == ArrayOr(player, "augmentations")
        queued == ArrayOr(player, "queuedAugmentations")
        originalInstalled == ArrayOr(originalPlayer, "augmentations")
        originalQueued == ArrayOr(originalPlayer, "queuedAugmentations")
        maxInstalled == MaxLevelFrom(0, installed)
        originalMaxInstalled == MaxLevelFrom(0, originalInstalled)
    IN [installedLevel |-> maxInstalled,
        queuedLevel |-> IF HasNeuroFlux(queued)
                        THEN MaxLevelFrom(0, queued) ELSE maxInstalled,
        originalInstalledLevel |-> originalMaxInstalled,
        originalQueuedLevel |-> IF HasNeuroFlux(originalQueued)
                                THEN MaxLevelFrom(0, originalQueued)
                                ELSE originalMaxInstalled]
\* the two loops of onUpdateNeuroFlux: the other augmentations keep their
\* order, the NeuroFlux records go where the first one was, or to the end
Rebuild(source, records) ==
    LET others(seq) == SelectSeq(seq, LAMBDA a : ~IsNeuroFlux(a)) IN
    IF HasNeuroFlux(source)
    THEN LET first == CHOOSE i \in 1..Len(source) :
                         IsNeuroFlux(source[i]) /\ \A j \in 1..(i - 1) : ~IsNeuroFlux(source[j])
         IN others(SubSeq(source, 1, first - 1)) \o records
                \o others(SubSeq(source, first + 1, Len(source)))
    ELSE source \o records
InstalledRecords(installedLevel) ==
    IF installedLevel > 0 THEN <<Aug(NeuroFlux, installedLevel)>> ELSE <<>>
QueuedRecords(installedLevel, queuedLevel) ==
    IF queuedLevel > installedLevel
    THEN [k \in 1..(queuedLevel - installedLevel) |-> Aug(NeuroFlux, installedLevel + k)]
    ELSE <<>>
\* resetting hands the baseline's two arrays themselves to the working copy;
\* anything else builds two new arrays
onUpdateNeuroFlux(installedLevel, queuedLevel) ==
    /\ Editable
    /\ LET originalInstalledLevel ==
               MaxLevelFrom(0, ArrayOr(originalPlayer, "augmentations"))
           originalQueuedLevel ==
               MaxLevelFrom(originalInstalledLevel,
                            ArrayOr(originalPlayer, "queuedAugmentations"))
           isResetting == /\ installedLevel = originalInstalledLevel
                          /\ queuedLevel = originalQueuedLevel
       IN IF /\ isResetting
             /\ "augmentations" \in DOMAIN originalPlayer
             /\ "queuedAugmentations" \in DOMAIN originalPlayer
          THEN /\ modifiedSave' = WithPlayer(modifiedSave,
                     [player EXCEPT
                        !.augmentations = originalPlayer.augmentations,
                        !.queuedAugmentations = originalPlayer.queuedAugmentations])
               /\ arrayOwner' = [augmentations |-> "original",
                                 queuedAugmentations |-> "original"]
          ELSE /\ modifiedSave' = WithPlayer(modifiedSave,
                     [player EXCEPT
                        !.augmentations =
                            Rebuild(ArrayOr(player, "augmentations"),
                                    InstalledRecords(installedLevel)),
                        !.queuedAugmentations =
                            Rebuild(ArrayOr(player, "queuedAugmentations"),
                                    QueuedRecords(installedLevel, queuedLevel))])
               /\ arrayOwner' = OwnArrays
    /\ UNCHANGED <<file, originalSave, loads, download, confirmDialog, uncaught, pendingSync>>
\* the card's Update button: the typed levels, clamped
NeuroFluxHandleUpdate(stateInstalled, stateQueued) ==
    /\ Editable
    /\ <<stateInstalled, stateQueued>> #
           <<neurofluxData.installedLevel, neurofluxData.queuedLevel>>
    /\ LET finalInstalled == Max(0, Min(NeuroFluxCap, stateInstalled))
           finalQueued == Max(finalInstalled, Min(NeuroFluxCap, stateQueued))
       IN onUpdateNeuroFlux(finalInstalled, finalQueued)
\* the card's Reset button, drawn when a level differs from its baseline
NeuroFluxHandleRevert ==
    /\ Editable
    /\ \/ neurofluxData.installedLevel # neurofluxData.originalInstalledLevel
       \/ neurofluxData.queuedLevel # neurofluxData.originalQueuedLevel
    /\ onUpdateNeuroFlux(neurofluxData.originalInstalledLevel,
                         neurofluxData.originalQueuedLevel)

(***************************************************************************)
(* Ordinary augmentations: the catalog, the projection, the prerequisite   *)
(* cascade and the confirmation dialog.                                    *)
(***************************************************************************)
AugmentationStatuses == {"none", "queued", "installed"}
\* the catalog's keys
ALL_AUGMENTATIONS ==
    <<"BionicArms", "BitWire", "CombatRib1", "CombatRib2", "CombatRib3",
      "GrapheneBionicArms", "NeuroFluxGovernor">>
\* the catalog's records: a display name and the keys of the prerequisites
AUGMENTATION_DATA ==
    [BionicArms |-> [name |-> "Bionic Arms", prereqs |-> <<>>],
     BitWire |-> [name |-> "BitWire", prereqs |-> <<>>],
     CombatRib1 |-> [name |-> "Combat Rib I", prereqs |-> <<>>],
     CombatRib2 |-> [name |-> "Combat Rib II", prereqs |-> <<"CombatRib1">>],
     CombatRib3 |-> [name |-> "Combat Rib III", prereqs |-> <<"CombatRib2">>],
     GrapheneBionicArms |-> [name |-> "Graphene Bionic Arms Upgrade",
                             prereqs |-> <<"BionicArms">>]]
Undefined == "undefined"
\* augName.includes("NeuroFlux"), on the catalog's keys
IncludesNeuroFlux(key) == key = "NeuroFluxGovernor"
\* name.replace(/\s+/g, ""), on the names of the catalog
StripSpaces(name) ==
    CASE name = "Bionic Arms" -> "BionicArms"
      [] name = "Graphene Bionic Arms Upgrade" -> "GrapheneBionicArmsUpgrade"
      [] name = "Combat Rib I" -> "CombatRibI"
      [] name = "Combat Rib II" -> "CombatRibII"
      [] name = "Combat Rib III" -> "CombatRibIII"
      [] OTHER -> name
DisplayName(key) ==
    IF key \in DOMAIN AUGMENTATION_DATA THEN AUGMENTATION_DATA[key].name ELSE key
\* the key of the record found for a name: by the name without its spaces,
\* else by the first record with that display name
KeyOf(augName) ==
    IF StripSpaces(augName) \in DOMAIN AUGMENTATION_DATA THEN StripSpaces(augName)
    ELSE LET found == SelectSeq(ALL_AUGMENTATIONS,
                                LAMBDA k : /\ k \in DOMAIN AUGMENTATION_DATA
                                           /\ AUGMENTATION_DATA[k].name = augName)
         IN IF found = <<>> THEN Undefined ELSE Head(found)

HasName(arr, name) == \E i \in 1..Len(arr) : arr[i].name = name
\* findIndex, with 0 for "not found"
FindIndex(arr, name) ==
    IF HasName(arr, name)
    THEN CHOOSE i \in 1..Len(arr) :
             arr[i].name = name /\ \A j \in 1..(i - 1) : arr[j].name # name
    ELSE 0
\* splice(index, 1), guarded by index >= 0
RemoveAt(arr, i) ==
    IF i = 0 THEN arr ELSE SubSeq(arr, 1, i - 1) \o SubSeq(arr, i + 1, Len(arr))

\* augMap.set for every record of one array
RECURSIVE MarkAll(_, _, _)
MarkAll(augMap, arr, status) ==
    IF arr = <<>> THEN augMap
    ELSE MarkAll(IF IsNeuroFlux(Head(arr)) THEN augMap
                 ELSE OPut(augMap, Head(arr).name,
                           [name |-> Head(arr).name, level |-> Head(arr).level,
                            status |-> status]),
                 Tail(arr), status)
\* augMap.set at "none" for every name not yet in the map
RECURSIVE SeedAll(_, _)
SeedAll(augMap, names) ==
    IF names = <<>> THEN augMap
    ELSE SeedAll(IF OHas(augMap, Head(names)) THEN augMap
                 ELSE OPut(augMap, Head(names),
                           [name |-> Head(names), level |-> 0, status |-> "none"]),
                 Tail(names))
NamesOf(arr) == [i \in 1..Len(arr) |-> arr[i].name]
\* the cards of the section: the catalog at "none", the baseline's names, then
\* the working copy's installed records and after them its queued records
allAugmentations ==
    LET catalog == SelectSeq(ALL_AUGMENTATIONS, LAMBDA k : ~IncludesNeuroFlux(k))
        seeded == SeedAll(<<>>, [i \in 1..Len(catalog) |-> DisplayName(catalog[i])])
        originalAugNames ==
            SelectSeq(NamesOf(ArrayOr(originalPlayer, "augmentations"))
                          \o NamesOf(ArrayOr(originalPlayer, "queuedAugmentations")),
                      LAMBDA n : n # NeuroFlux)
        withOriginal == SeedAll(seeded, originalAugNames)
        withInstalled == MarkAll(withOriginal, ArrayOr(player, "augmentations"), "installed")
    IN MarkAll(withInstalled, ArrayOr(player, "queuedAugmentations"), "queued")
CardNames == {allAugmentations[i][1] : i \in 1..Len(allAugmentations)}
\* the status and level a card is drawn with, and the baseline's
OriginalStatusOf(name) ==
    IF HasName(ArrayOr(originalPlayer, "augmentations"), name) THEN "installed"
    ELSE IF HasName(ArrayOr(originalPlayer, "queuedAugmentations"), name) THEN "queued"
    ELSE "none"
OriginalLevelOf(name) ==
    IF HasName(ArrayOr(originalPlayer, "augmentations"), name)
    THEN originalPlayer.augmentations[FindIndex(originalPlayer.augmentations, name)].level
    ELSE IF HasName(ArrayOr(originalPlayer, "queuedAugmentations"), name)
    THEN originalPlayer.queuedAugmentations[
             FindIndex(originalPlayer.queuedAugmentations, name)].level
    ELSE 0

\* the catalog keys that name augName, or its key, among their prerequisites
dependentAugs(augName) ==
    SelectSeq(ALL_AUGMENTATIONS,
              LAMBDA other :
                  /\ other # augName
                  /\ ~IncludesNeuroFlux(other)
                  /\ other \in DOMAIN AUGMENTATION_DATA
                  /\ \E i \in 1..Len(AUGMENTATION_DATA[other].prereqs) :
                        \/ AUGMENTATION_DATA[other].prereqs[i] = KeyOf(augName)
                        \/ AUGMENTATION_DATA[other].prereqs[i] = augName)
\* what one dependent contributes to the list of affected augmentations
AffectedBy(depAugName, newStatus) ==
    LET depDisplayName == DisplayName(depAugName)
        installedAugs == ArrayOr(player, "augmentations")
        queuedAugs == ArrayOr(player, "queuedAugmentations")
        isInstalled == HasName(installedAugs, depAugName) \/ HasName(installedAugs, depDisplayName)
        isQueued == HasName(queuedAugs, depAugName) \/ HasName(queuedAugs, depDisplayName)
    IN IF isInstalled
       THEN <<[name |-> depDisplayName, currentStatus |-> "installed",
               newStatus |-> newStatus]>>
       ELSE IF isQueued /\ newStatus = "none"
       THEN <<[name |-> depDisplayName, currentStatus |-> "queued", newStatus |-> "none"]>>
       ELSE <<>>
RECURSIVE AffectedAll(_, _)
AffectedAll(deps, newStatus) ==
    IF deps = <<>> THEN <<>>
    ELSE AffectedBy(Head(deps), newStatus) \o AffectedAll(Tail(deps), newStatus)
calculateImpact(augName, newStatus) ==
    IF newStatus # "installed" THEN AffectedAll(dependentAugs(augName), newStatus) ELSE <<>>

\* the target's own change: in place when it already sits in the right array,
\* else out of both arrays and onto the end of the right one
TargetApplied(installedAugs, queuedAugs, augName, status, level) ==
    LET installedIndex == FindIndex(installedAugs, augName)
        queuedIndex == FindIndex(queuedAugs, augName)
    IN IF status = "installed" /\ installedIndex > 0
       THEN [installed |-> [installedAugs EXCEPT ![installedIndex] = Aug(augName, level)],
             queued |-> RemoveAt(queuedAugs, queuedIndex)]
       ELSE IF status = "queued" /\ queuedIndex > 0
       THEN [installed |-> RemoveAt(installedAugs, installedIndex),
             queued |-> [queuedAugs EXCEPT ![queuedIndex] = Aug(augName, level)]]
       ELSE [installed |-> IF status = "installed"
                           THEN Append(RemoveAt(installedAugs, installedIndex),
                                       Aug(augName, level))
                           ELSE RemoveAt(installedAugs, installedIndex),
             queued |-> IF status = "queued"
                        THEN Append(RemoveAt(queuedAugs, queuedIndex), Aug(augName, level))
                        ELSE RemoveAt(queuedAugs, queuedIndex)]
\* one affected dependent, looked up by the name the list carries
CascadeStep(arrays, affected) ==
    LET depInstalledIdx == FindIndex(arrays.installed, affected.name)
        depQueuedIdx == FindIndex(arrays.queued, affected.name)
    IN IF affected.currentStatus = "installed" /\ depInstalledIdx > 0
       THEN IF affected.newStatus = "queued"
            THEN [installed |-> RemoveAt(arrays.installed, depInstalledIdx),
                  queued |-> Append(arrays.queued, arrays.installed[depInstalledIdx])]
            ELSE IF affected.newStatus = "none"
            THEN [arrays EXCEPT !.installed = RemoveAt(arrays.installed, depInstalledIdx)]
            ELSE arrays
       ELSE IF /\ affected.currentStatus = "queued"
               /\ depQueuedIdx > 0
               /\ affected.newStatus = "none"
       THEN [arrays EXCEPT !.queued = RemoveAt(arrays.queued, depQueuedIdx)]
       ELSE arrays
RECURSIVE Cascade(_, _)
Cascade(arrays, affectedAugs) ==
    IF affectedAugs = <<>> THEN arrays
    ELSE Cascade(CascadeStep(arrays, Head(affectedAugs)), Tail(affectedAugs))
\* filter(a => a.name !== augName).length of a field that may be missing
LengthWithout(d, field, augName) ==
    IF field \in DOMAIN d
    THEN Len(SelectSeq(d[field], LAMBDA a : a.name # augName))
    ELSE Undefined
\* the reset of a card to its baseline status hands over the baseline's arrays
\* when the other records are as many as the baseline's
UsesOriginalArrays(augName, status, level) ==
    /\ status = OriginalStatusOf(augName)
    /\ level = OriginalLevelOf(augName)
    /\ LengthWithout(player, "augmentations", augName) =
           LengthWithout(originalPlayer, "augmentations", augName)
    /\ LengthWithout(player, "queuedAugmentations", augName) =
           LengthWithout(originalPlayer, "queuedAugmentations", augName)
    /\ "augmentations" \in DOMAIN originalPlayer
    /\ "queuedAugmentations" \in DOMAIN originalPlayer
NeedsConfirmation(affectedAugs, skipConfirmation) ==
    affectedAugs # <<>> /\ ~skipConfirmation
applyChange(augName, status, level, skipConfirmation) ==
    /\ Editable
    /\ LET affectedAugs == calculateImpact(augName, status) IN
       IF NeedsConfirmation(affectedAugs, skipConfirmation)
       THEN /\ confirmDialog' = [augName |-> augName, newStatus |-> status,
                                 newLevel |-> level,
                                 affectedAugmentations |-> affectedAugs]
            /\ UNCHANGED <<modifiedSave, arrayOwner>>
       ELSE /\ confirmDialog' = NoDialog
            /\ IF UsesOriginalArrays(augName, status, level)
               THEN /\ modifiedSave' = WithPlayer(modifiedSave,
                          [player EXCEPT
                             !.augmentations = originalPlayer.augmentations,
                             !.queuedAugmentations = originalPlayer.queuedAugmentations])
                    /\ arrayOwner' = [augmentations |-> "original",
                                      queuedAugmentations |-> "original"]
               ELSE LET own == TargetApplied(ArrayOr(player, "augmentations"),
                                             ArrayOr(player, "queuedAugmentations"),
                                             augName, status, level)
                        arrays == IF skipConfirmation THEN Cascade(own, affectedAugs)
                                  ELSE own
                    IN /\ modifiedSave' = WithPlayer(modifiedSave,
                             [player EXCEPT
                                !.augmentations = arrays.installed,
                                !.queuedAugmentations = arrays.queued])
                       /\ arrayOwner' = OwnArrays
    /\ UNCHANGED <<file, originalSave, loads, download, uncaught, pendingSync>>
\* the dialog covers the page: nothing behind it can be clicked
DialogClosed == confirmDialog = NoDialog
onSubmit(augName, status, level) ==
    DialogClosed /\ applyChange(augName, status, level, FALSE)
handleConfirmChange ==
    /\ ~DialogClosed
    /\ applyChange(confirmDialog.augName, confirmDialog.newStatus,
                   confirmDialog.newLevel, TRUE)
handleCancelChange_TargetWritten ==
    /\ ~DialogClosed
    /\ Editable
    /\ confirmDialog' = NoDialog
    /\ LET own == TargetApplied(ArrayOr(player, "augmentations"),
                                ArrayOr(player, "queuedAugmentations"),
                                confirmDialog.augName, confirmDialog.newStatus,
                                confirmDialog.newLevel)
       IN modifiedSave' = WithPlayer(modifiedSave,
              [player EXCEPT !.augmentations = own.installed,
                             !.queuedAugmentations = own.queued])
    /\ arrayOwner' = OwnArrays
    /\ UNCHANGED <<file, originalSave, loads, download, uncaught, pendingSync>>
handleCancelChange ==
    /\ ~DialogClosed
    /\ confirmDialog' = NoDialog
    /\ UNCHANGED <<file, originalSave, modifiedSave, arrayOwner, loads, download, uncaught, pendingSync>>
\* the card's select: the level is 1 for every status, after the clamp
AugmentationOnStatusChange(name, newStatus) ==
    /\ Editable
    /\ name \in CardNames
    /\ newStatus # OGet(allAugmentations, name).status
    /\ onSubmit(name, newStatus, Max(1, IF newStatus = "none" THEN 0 ELSE 1))
\* the card's Revert button, drawn when the status differs from the baseline's
AugmentationHandleRevert(name) ==
    /\ Editable
    /\ name \in CardNames
    /\ OGet(allAugmentations, name).status # OriginalStatusOf(name)
    /\ onSubmit(name, OriginalStatusOf(name), OriginalLevelOf(name))

(***************************************************************************)
(* Companies.                                                               *)
(***************************************************************************)
ALL_COMPANIES == <<"ECorp", "Fulcrum Technologies", "MegaCorp">>
FavorMax == 150
HasCompanies(s) == s.data["CompaniesSave"].kind # "null"
CompanyEntries(s) == s.data["CompaniesSave"].entries
ZeroCompany == << <<"favor", 0>>, <<"playerReputation", 0>> >>
CompanyView(fields) ==
    [favor |-> FieldOr(fields, "favor", 0),
     playerReputation |-> FieldOr(fields, "playerReputation", 0)]
\* parseCompaniesData: every known company at zero, the saved entries merged
\* in, the whole sorted by reputation, highest first
parseCompaniesData(s) ==
    LET known == [i \in 1..Len(ALL_COMPANIES) |-> <<ALL_COMPANIES[i], ZeroCompany>>]
        merged == OAssign(known, CompanyEntries(s))
    IN SortByReputation([i \in 1..Len(merged) |-> <<merged[i][1], CompanyView(merged[i][2])>>])
companiesData == parseCompaniesData(save)
companiesOriginalData ==
    IF originalSave = NoSave \/ ~HasCompanies(originalSave) THEN <<>>
    ELSE parseCompaniesData(originalSave)
\* a field the update leaves out counts as zero
ZeroOrMissing(updates, current, key) == ~OHas(updates, key) \/ OGet(updates, key) = 0
\* the CompaniesSave section updateCompany leaves
CompaniesAfter(entries, originalEntries, company, updates) ==
    LET current == IF OHas(entries, company) THEN OGet(entries, company) ELSE <<>>
        isRevertingToZero == /\ ZeroOrMissing(updates, current, "favor")
                             /\ ZeroOrMissing(updates, current, "playerReputation")
        notInOriginal == ~OHas(originalEntries, company)
    IN IF isRevertingToZero /\ notInOriginal
       THEN ODel(entries, company)
       ELSE LET created == IF OHas(entries, company) THEN entries
                           ELSE OPut(entries, company, ZeroCompany)
            IN OPut(created, company, OAssign(OGet(created, company), updates))
updateCompany(company, updates) ==
    /\ ready /\ HasCompanies(save) /\ HasCompanies(originalSave)
    /\ modifiedSave' =
          [modifiedSave EXCEPT !.data["CompaniesSave"].entries =
              CompaniesAfter(@, CompanyEntries(originalSave), company, updates)]
    /\ UNCHANGED <<file, originalSave, arrayOwner, loads, download,
                   confirmDialog, uncaught, pendingSync>>
\* the Company card: a typed field is submitted with the card's other field
CompanyFields == {"favor", "playerReputation"}
CardUpdate(view) == << <<"favor", view.favor>>, <<"playerReputation", view.playerReputation>> >>
CompanyOnChange(id, key, value) ==
    /\ ready /\ HasCompanies(save)
    /\ OHas(companiesData, id)
    /\ updateCompany(id, CardUpdate([ViewOf(companiesData, id) EXCEPT ![key] = value]))
onSetFavorToMax(id) == CompanyOnChange(id, "favor", FavorMax)
CompanyHandleRevert(id) ==
    /\ ready /\ HasCompanies(save)
    /\ OHas(companiesData, id) /\ OHas(companiesOriginalData, id)
    /\ ViewOf(companiesData, id) # ViewOf(companiesOriginalData, id)
    /\ updateCompany(id, CardUpdate(ViewOf(companiesOriginalData, id)))

(***************************************************************************)
(* Servers: the store's projection and mutations, the Server card and the  *)
(* purchased-server list of the player section.                             *)
(***************************************************************************)
\* the RAM sizes the card's select offers: the powers of two from 8 to 2^30
VALID_RAM_VALUES == [k \in 1..28 |-> 2^(k + 2)]
PurchasedLimit == 25
HasServers(s) == s.data["AllServersSave"].kind # "null"
ServerEntries(s) == s.data["AllServersSave"].entries
\* one projected ServerData, its keys in the order the object literal gives
ServerView(hostname, fields) ==
    << <<"hostname", IF OHas(fields, "hostname") /\ OGet(fields, "hostname") # ""
                     THEN OGet(fields, "hostname") ELSE hostname>>,
       <<"organizationName", FieldOr(fields, "organizationName", Undefined)>>,
       <<"maxRam", FieldOr(fields, "maxRam", 0)>>,
       <<"cpuCores", FieldOr(fields, "cpuCores", 1)>>,
       <<"hackDifficulty", FieldOr(fields, "hackDifficulty", 0)>>,
       <<"minDifficulty", FieldOr(fields, "minDifficulty", 0)>>,
       <<"moneyAvailable", FieldOr(fields, "moneyAvailable", 0)>>,
       <<"moneyMax", FieldOr(fields, "moneyMax", 0)>>,
       <<"requiredHackingSkill", FieldOr(fields, "requiredHackingSkill", 0)>>,
       <<"hasAdminRights", FieldOr(fields, "hasAdminRights", FALSE)>>,
       <<"backdoorInstalled", FieldOr(fields, "backdoorInstalled", FALSE)>>,
       <<"purchasedByPlayer", FieldOr(fields, "purchasedByPlayer", FALSE)>> >>
\* the projection's order: home first, then the purchased servers, then the
\* rest; within a group the documents list the hostnames in locale order
SortServers(list) ==
    LET isHome(e) == e[1] = "home"
        isPurchased(e) == OGet(e[2], "purchasedByPlayer")
    IN SelectSeq(list, isHome)
       \o SelectSeq(list, LAMBDA e : ~isHome(e) /\ isPurchased(e))
       \o SelectSeq(list, LAMBDA e : ~isHome(e) /\ ~isPurchased(e))
parseServersData(s) ==
    LET entries == ServerEntries(s)
    IN SortServers([i \in 1..Len(entries) |->
                      <<entries[i][1], ServerView(entries[i][1], entries[i][2].fields)>>])
serversData == IF HasServers(save) THEN parseServersData(save) ELSE <<>>
serversOriginalData ==
    IF ~HasServers(save) THEN <<>>
    ELSE IF originalSave # NoSave /\ HasServers(originalSave)
    THEN parseServersData(originalSave) ELSE <<>>
\* the AllServersSave entries updateServer leaves: the updates assigned onto
\* the record as they are given
ServersAfter(entries, hostname, updates) ==
    IF ~OHas(entries, hostname) THEN entries
    ELSE OPut(entries, hostname,
              [OGet(entries, hostname) EXCEPT !.fields = OAssign(@, updates)])
WithServers(s, entries) == [s EXCEPT !.data["AllServersSave"].entries = entries]
updateServer(hostname, updates) ==
    /\ ready /\ HasServers(save)
    /\ OHas(ServerEntries(save), hostname)
    /\ modifiedSave' = WithServers(modifiedSave,
                                   ServersAfter(ServerEntries(save), hostname, updates))
    /\ UNCHANGED <<file, originalSave, arrayOwner, loads, download,
                   confirmDialog, uncaught, pendingSync>>
\* resetServer: the record from the baseline, and the hostname put back into
\* or taken out of the purchased list as the baseline has it
PurchasedAfterReset(currentPurchased, originalPurchased, hostname) ==
    LET wasPurchased == Includes(originalPurchased, hostname)
        isPurchased == Includes(currentPurchased, hostname)
        insertIdx == IndexOf(originalPurchased, hostname)
    IN IF wasPurchased /\ ~isPurchased
       THEN IF insertIdx >= 0 /\ insertIdx <= Len(currentPurchased)
            THEN SubSeq(currentPurchased, 1, insertIdx) \o <<hostname>>
                 \o SubSeq(currentPurchased, insertIdx + 1, Len(currentPurchased))
            ELSE Append(currentPurchased, hostname)
       ELSE IF ~wasPurchased /\ isPurchased
       THEN Without(currentPurchased, hostname)
       ELSE currentPurchased
resetServer(hostname) ==
    /\ Editable /\ HasServers(save) /\ HasServers(originalSave)
    /\ OHas(ServerEntries(originalSave), hostname)
    /\ LET restored == WithServers(modifiedSave,
                          OPut(ServerEntries(save), hostname,
                               DeepClone(OGet(ServerEntries(originalSave), hostname))))
           next == PurchasedAfterReset(ArrayOr(player, "purchasedServers"),
                                       ArrayOr(originalPlayer, "purchasedServers"),
                                       hostname)
       IN modifiedSave' =
             IF next = ArrayOr(player, "purchasedServers") THEN restored
             ELSE WithPlayer(restored, [player EXCEPT !.purchasedServers = next])
    /\ UNCHANGED <<file, originalSave, arrayOwner, loads, download,
                   confirmDialog, uncaught, pendingSync>>
\* resetPurchasedServers: the baseline's list, and on every working record
\* the baseline has too the baseline's flag
FlagsFromOriginal(entries, originalEntries) ==
    [i \in 1..Len(entries) |->
        IF ~OHas(originalEntries, entries[i][1]) THEN entries[i]
        ELSE <<entries[i][1],
               [entries[i][2] EXCEPT !.fields =
                   OPut(@, "purchasedByPlayer",
                        FieldOr(OGet(originalEntries, entries[i][1]).fields,
                                "purchasedByPlayer", FALSE))]>>]
resetPurchasedServers ==
    /\ Editable
    /\ LET listed == WithPlayer(modifiedSave,
                        [player EXCEPT !.purchasedServers =
                            DeepClone(ArrayOr(originalPlayer, "purchasedServers"))])
       IN modifiedSave' =
             IF HasServers(save) /\ HasServers(originalSave)
             THEN WithServers(listed, FlagsFromOriginal(ServerEntries(save),
                                                        ServerEntries(originalSave)))
             ELSE listed
    /\ UNCHANGED <<file, originalSave, arrayOwner, loads, download,
                   confirmDialog, uncaught, pendingSync>>

\* the player section's purchased list
purchasedServers == ArrayOr(player, "purchasedServers")
originalPurchasedServers == ArrayOr(originalPlayer, "purchasedServers")
purchasedChanged == purchasedServers # originalPurchasedServers
hasMaxPurchased == Len(purchasedServers) >= PurchasedLimit
\* the typed names the model draws from, with what trim and toLowerCase make
\* of them
NewServerNames == {"pserv-9", " pserv-9 ", "N00DLES", " "}
Trim(name) ==
    CASE name = " pserv-9 " -> "pserv-9"
      [] name = " " -> ""
      [] OTHER -> name
ToLowerCase(name) == IF name = "N00DLES" THEN "n00dles" ELSE name
\* syncPurchasedFlags: every server of the rendered projection whose flag
\* differs from its membership in the list is updated to the membership
RECURSIVE syncPurchasedFlags(_, _, _)
syncPurchasedFlags(entries, data, purchasedList) ==
    IF data = <<>> THEN entries
    ELSE LET hostname == data[1][1]
             shouldBePurchased == Includes(purchasedList, hostname)
             next == IF OGet(data[1][2], "purchasedByPlayer") # shouldBePurchased
                     THEN ServersAfter(entries, hostname,
                                       << <<"purchasedByPlayer", shouldBePurchased>> >>)
                     ELSE entries
         IN syncPurchasedFlags(next, Tail(data), purchasedList)
\* updatePlayer({purchasedServers: next}) followed by syncPurchasedFlags(next)
PurchasedWritten_ListOnly(next) ==
    WithPlayer(modifiedSave, [player EXCEPT !.purchasedServers = next])
PurchasedWritten(next) ==
    LET listed == WithPlayer(modifiedSave, [player EXCEPT !.purchasedServers = next])
    IN IF HasServers(save)
       THEN WithServers(listed, syncPurchasedFlags(ServerEntries(save), serversData, next))
       ELSE listed
handleRemovePurchased(hostname) ==
    /\ Editable
    /\ Includes(purchasedServers, hostname)
    /\ modifiedSave' = PurchasedWritten(Without(purchasedServers, hostname))
    /\ UNCHANGED <<file, originalSave, arrayOwner, loads, download,
                   confirmDialog, uncaught, pendingSync>>
handleAddPurchased(newServerName) ==
    LET trimmed == Trim(newServerName)
    IN /\ Editable
       /\ trimmed # ""
       /\ ~hasMaxPurchased
       /\ ~\E i \in 1..Len(serversData) :
             ToLowerCase(serversData[i][1]) = ToLowerCase(trimmed)
       /\ modifiedSave' = PurchasedWritten(Append(purchasedServers, trimmed))
       /\ UNCHANGED <<file, originalSave, arrayOwner, loads, download,
                      confirmDialog, uncaught, pendingSync>>
handleResetPurchased ==
    /\ Editable
    /\ purchasedChanged
    /\ resetPurchasedServers

\* The same handlers store call by store call. updatePlayer and every
\* updateServer are transactions of their own; the handler is a synchronous
\* function, so between its calls no other callback of the page runs: the
\* handlers, the export and the continuation of a load start only when no
\* handler is running.
HandlerIdle_Yielding == TRUE
HandlerIdle == pendingSync = <<>>
\* the calls syncPurchasedFlags will make, read off the rendered projection
SyncCalls(data, purchasedList) ==
    LET differs(e) == OGet(e[2], "purchasedByPlayer") # Includes(purchasedList, e[1])
        stale == SelectSeq(data, differs)
    IN [i \in 1..Len(stale) |-> <<stale[i][1], Includes(purchasedList, stale[i][1])>>]
updatePlayerPurchased(next) ==
    /\ modifiedSave' = WithPlayer(modifiedSave, [player EXCEPT !.purchasedServers = next])
    /\ pendingSync' = IF HasServers(save) THEN SyncCalls(serversData, next) ELSE <<>>
    /\ UNCHANGED <<file, originalSave, arrayOwner, loads, download,
                   confirmDialog, uncaught>>
handleRemovePurchasedBegin(hostname) ==
    /\ Editable /\ HandlerIdle
    /\ Includes(purchasedServers, hostname)
    /\ updatePlayerPurchased(Without(purchasedServers, hostname))
handleAddPurchasedBegin(newServerName) ==
    LET trimmed == Trim(newServerName)
    IN /\ Editable /\ HandlerIdle
       /\ trimmed # ""
       /\ ~hasMaxPurchased
       /\ ~\E i \in 1..Len(serversData) :
             ToLowerCase(serversData[i][1]) = ToLowerCase(trimmed)
       /\ updatePlayerPurchased(Append(purchasedServers, trimmed))
syncPurchasedFlagsNext ==
    /\ pendingSync # <<>>
    /\ modifiedSave' =
          WithServers(modifiedSave,
                      ServersAfter(ServerEntries(save), pendingSync[1][1],
                                   << <<"purchasedByPlayer", pendingSync[1][2]>> >>))
    /\ pendingSync' = Tail(pendingSync)
    /\ UNCHANGED <<file, originalSave, arrayOwner, loads, download,
                   confirmDialog, uncaught>>

\* the Server card: a changed field is submitted with the card's other
\* editable fields, each passed through its bound
ServerUpdates(state) ==
    << <<"maxRam", Max(0, OGet(state, "maxRam"))>>,
       <<"cpuCores", Min(8, Max(1, OGet(state, "cpuCores")))>>,
       <<"hackDifficulty", Max(0, OGet(state, "hackDifficulty"))>>,
       <<"minDifficulty", Max(0, OGet(state, "minDifficulty"))>>,
       <<"moneyAvailable", Max(0, OGet(state, "moneyAvailable"))>>,
       <<"moneyMax", Max(0, OGet(state, "moneyMax"))>>,
       <<"requiredHackingSkill", Max(0, OGet(state, "requiredHackingSkill"))>>,
       <<"hasAdminRights", OGet(state, "hasAdminRights")>>,
       <<"backdoorInstalled", OGet(state, "backdoorInstalled")>> >>
ServerOnChange(hostname, key, value) ==
    /\ ready /\ HasServers(save)
    /\ OHas(serversData, hostname)
    /\ LET finalValue == IF key = "cpuCores" /\ value > 8 THEN 8 ELSE value
       IN updateServer(hostname,
                       ServerUpdates(OPut(OGet(serversData, hostname), key, finalValue)))
ServerOnSelectChange(hostname, value) ==
    /\ ready /\ HasServers(save)
    /\ OHas(serversData, hostname)
    /\ updateServer(hostname,
                    ServerUpdates(OPut(OGet(serversData, hostname), "maxRam", value)))
onMaxRam(hostname) ==
    ServerOnSelectChange(hostname, VALID_RAM_VALUES[Len(VALID_RAM_VALUES)])
\* the section's bulk action: the largest RAM size on every selected server
RECURSIVE MaxRamOnAll(_, _)
MaxRamOnAll(entries, hostnames) ==
    IF hostnames = {} THEN entries
    ELSE LET hostname == CHOOSE h \in hostnames : TRUE
         IN MaxRamOnAll(ServersAfter(entries, hostname,
                           << <<"maxRam", VALID_RAM_VALUES[Len(VALID_RAM_VALUES)]>> >>),
                        hostnames \ {hostname})
onMaxRamSelected(selectedServers) ==
    /\ ready /\ HasServers(save)
    /\ selectedServers # {}
    /\ \A h \in selectedServers : OHas(serversData, h)
    /\ modifiedSave' = WithServers(modifiedSave,
                                   MaxRamOnAll(ServerEntries(save), selectedServers))
    /\ UNCHANGED <<file, originalSave, arrayOwner, loads, download,
                   confirmDialog, uncaught, pendingSync>>
\* the card's Reset: the baseline's projected record submitted as an update
ServerHasChanged(hostname) ==
    /\ OHas(serversOriginalData, hostname)
    /\ OGet(serversData, hostname) # OGet(serversOriginalData, hostname)
ServerHandleRevert(hostname) ==
    /\ ready /\ HasServers(save)
    /\ OHas(serversData, hostname)
    /\ ServerHasChanged(hostname)
    /\ updateServer(hostname, OGet(serversOriginalData, hostname))

(***************************************************************************)
(* Specifications.                                                          *)
(***************************************************************************)
\* the codec alone: one load at a time, no edit
CodecFiles == FileIds
NextCodec ==
    \/ \E f \in CodecFiles : NonePending /\ uploadFile(f)
    \/ \E i \in 1..MaxUploads : processFile(i)
    \/ downloadFile
SpecCodec == Init /\ [][NextCodec]_vars

\* several loads in flight, job edits and revertAll
LoadFiles == {"gzUnmarked", "b64Zero", "badTag", "garbage", "noExploits"}
NextLoad ==
    \/ \E f \in LoadFiles : uploadFile(f)
    \/ \E i \in 1..MaxUploads : processFile(i)
    \/ revertChanges
    \/ \E c \in Companies, t \in JobTitles : updateJob(c, t)
    \/ \E c \in Companies : deleteJob(c)
SpecLoad == Init /\ [][NextLoad]_vars

\* one document, edited: jobs, NeuroFlux levels, revertAll
EditFiles == {"b64Zero", "gzUnmarked"}
NextEdit ==
    \/ \E f \in EditFiles : NonePending /\ uploadFile(f)
    \/ \E i \in 1..MaxUploads : processFile(i)
    \/ revertChanges
    \/ \E c \in Companies, t \in JobTitles : updateJob(c, t)
    \/ \E c \in Companies : deleteJob(c)
    \/ \E i \in LevelInputs, q \in LevelInputs : NeuroFluxHandleUpdate(i, q)
    \/ NeuroFluxHandleRevert
SpecEdit == Init /\ [][NextEdit]_vars

\* one document and its faction cards
FactionFiles == {"b64Zero"}
FactionNames == {"CyberSec", "NiteSec"}
ReputationInputs == {0, 500}
FavorInputs == {0, 10}
NextFaction ==
    \/ \E f \in FactionFiles : NonePending /\ uploadFile(f)
    \/ \E i \in 1..MaxUploads : processFile(i)
    \/ revertChanges
    \/ \E id \in FactionNames, value \in Statuses : onStatusChange(id, value)
    \/ \E id \in FactionNames, r \in ReputationInputs, v \in FavorInputs, b \in BOOLEAN :
          onClose(id, r, v, b)
    \/ \E id \in FactionNames : FactionHandleRevert(id)
SpecFaction == Init /\ [][NextFaction]_vars

\* one document with three joined factions, and the status selects of its cards
ReinsertFiles == {"b64Three"}
ReinsertNames == {"CyberSec", "NiteSec", "BitRunners"}
NextReinsert ==
    \/ \E f \in ReinsertFiles : NonePending /\ uploadFile(f)
    \/ \E i \in 1..MaxUploads : processFile(i)
    \/ revertChanges
    \/ \E id \in ReinsertNames, value \in Statuses : onStatusChange(id, value)
    \/ \E id \in ReinsertNames : FactionHandleRevert(id)
SpecReinsert == Init /\ [][NextReinsert]_vars

\* one document and its company cards, with the export
CompanyFiles == {"b64Zero"}
CompanyInputs == {0, 10}
CompanyCards == {"ECorp", "Fulcrum Technologies"}
NextCompany ==
    \/ \E f \in CompanyFiles : NonePending /\ uploadFile(f)
    \/ \E i \in 1..MaxUploads : processFile(i)
    \/ revertChanges
    \/ downloadFile
    \/ \E id \in CompanyCards, key \in CompanyFields, value \in CompanyInputs :
          CompanyOnChange(id, key, value)
    \/ \E id \in CompanyCards : onSetFavorToMax(id)
    \/ \E id \in CompanyCards : CompanyHandleRevert(id)
SpecCompany == Init /\ [][NextCompany]_vars

\* the augmentation cards, the NeuroFlux card and the confirmation dialog
AugmentationFiles == {"b64Augs", "b64Irregular"}
AugmentationCards == {"Bionic Arms", "BitWire", "Graphene Bionic Arms Upgrade"}
NextAugmentations ==
    \/ \E f \in AugmentationFiles : DialogClosed /\ NonePending /\ uploadFile(f)
    \/ \E i \in 1..MaxUploads : processFile(i)
    \/ DialogClosed /\ revertChanges
    \/ Editable /\ \E n \in CardNames \cap AugmentationCards, st \in AugmentationStatuses :
                      AugmentationOnStatusChange(n, st)
    \/ Editable /\ \E n \in CardNames \cap AugmentationCards : AugmentationHandleRevert(n)
    \/ handleConfirmChange
    \/ handleCancelChange
    \/ \E i \in LevelInputs, q \in LevelInputs :
          DialogClosed /\ NeuroFluxHandleUpdate(i, q)
    \/ DialogClosed /\ NeuroFluxHandleRevert
SpecAugmentations == Init /\ [][NextAugmentations]_vars

\* the augmentation cards and the confirmation dialog
NextConfirm ==
    \/ \E f \in AugmentationFiles : DialogClosed /\ NonePending /\ uploadFile(f)
    \/ \E i \in 1..MaxUploads : processFile(i)
    \/ DialogClosed /\ revertChanges
    \/ Editable /\ \E n \in CardNames \cap AugmentationCards, st \in AugmentationStatuses :
                      AugmentationOnStatusChange(n, st)
    \/ Editable /\ \E n \in CardNames \cap AugmentationCards : AugmentationHandleRevert(n)
    \/ handleConfirmChange
    \/ handleCancelChange
SpecConfirm == Init /\ [][NextConfirm]_vars

\* files with and without the export's name pattern, a job edit, the export
ExportFiles == {"otherName", "gzUnmarked", "b64Zero"}
NextExport ==
    \/ \E f \in ExportFiles : NonePending /\ uploadFile(f)
    \/ \E i \in 1..MaxUploads : processFile(i)
    \/ revertChanges
    \/ \E c \in Companies, t \in JobTitles : updateJob(c, t)
    \/ \E c \in Companies : deleteJob(c)
    \/ downloadFile
SpecExport == Init /\ [][NextExport]_vars

\* servers as the game saves them: the Server cards, the bulk RAM action and
\* the purchased list
MaxPurchased == 2
ServerFiles == {"b64Servers"}
ServerCards == {"n00dles", "pserv-0"}
ServerInputs == {<<"cpuCores", 0>>, <<"cpuCores", 9>>, <<"hasAdminRights", FALSE>>}
RamInputs == {VALID_RAM_VALUES[2]}
Selections == {{"n00dles", "pserv-0"}}
NextServers ==
    \/ \E f \in ServerFiles : NonePending /\ uploadFile(f)
    \/ \E i \in 1..MaxUploads : processFile(i)
    \/ revertChanges
    \/ Editable /\ \E h \in OSet(purchasedServers) : handleRemovePurchased(h)
    \/ Editable /\ Len(purchasedServers) < MaxPurchased
          /\ \E n \in NewServerNames : handleAddPurchased(n)
    \/ \E in \in ServerInputs : ServerOnChange("n00dles", in[1], in[2])
    \/ \E v \in RamInputs : ServerOnSelectChange("n00dles", v)
    \/ onMaxRam("pserv-0")
    \/ \E sel \in Selections : onMaxRamSelected(sel)
    \/ \E h \in ServerCards : ServerHandleRevert(h)
SpecServers == Init /\ [][NextServers]_vars

\* a document whose flags agree with the purchased list: the list's buttons,
\* a card edit and the reverts of one server and of the list
PurchasedFiles == {"b64Agree"}
PurchasedCards == {"pserv-0", "pserv-1"}
NextPurchased ==
    \/ \E f \in PurchasedFiles : NonePending /\ uploadFile(f)
    \/ \E i \in 1..MaxUploads : processFile(i)
    \/ revertChanges
    \/ Editable /\ \E h \in OSet(purchasedServers) : handleRemovePurchased(h)
    \/ Editable /\ Len(purchasedServers) < MaxPurchased
          /\ \E n \in NewServerNames : handleAddPurchased(n)
    \/ handleResetPurchased
    \/ \E h \in PurchasedCards : ServerOnChange(h, "hasAdminRights", FALSE)
    \/ \E h \in PurchasedCards : ServerHandleRevert(h)
    \/ \E h \in PurchasedCards : resetServer(h)
SpecPurchased == Init /\ [][NextPurchased]_vars

\* the purchased list's handlers store call by store call, the faction card,
\* and the export as the reader
StepFiles == {"b64Agree"}
NextSteps ==
    \/ \E f \in StepFiles : HandlerIdle /\ NonePending /\ uploadFile(f)
    \/ \E i \in 1..MaxUploads : HandlerIdle /\ processFile(i)
    \/ HandlerIdle /\ downloadFile
    \/ Editable /\ \E h \in OSet(purchasedServers) : handleRemovePurchasedBegin(h)
    \/ Editable /\ Len(purchasedServers) < MaxPurchased
          /\ \E n \in NewServerNames : handleAddPurchasedBegin(n)
    \/ syncPurchasedFlagsNext
    \/ HandlerIdle /\ handleResetPurchased
    \/ HandlerIdle /\ \E value \in Statuses : onStatusChange("NiteSec", value)
SpecSteps == Init /\ [][NextSteps]_vars

\* a chain of prerequisites, its cards and the confirmation dialog
ChainFiles == {"b64Chain"}
ChainCards == {"Combat Rib I", "Combat Rib II", "Combat Rib III"}
NextChain ==
    \/ \E f \in ChainFiles : DialogClosed /\ NonePending /\ uploadFile(f)
    \/ \E i \in 1..MaxUploads : processFile(i)
    \/ DialogClosed /\ revertChanges
    \/ Editable /\ \E n \in CardNames \cap ChainCards, st \in AugmentationStatuses :
                      AugmentationOnStatusChange(n, st)
    \/ Editable /\ \E n \in CardNames \cap ChainCards : AugmentationHandleRevert(n)
    \/ handleConfirmChange
    \/ handleCancelChange
SpecChain == Init /\ [][NextChain]_vars

\* one document and direct calls of the store's updateCompany
ApiCompanies == {ALL_COMPANIES[i] : i \in 1..Len(ALL_COMPANIES)}
PartialUpdates ==
    {<< <<"favor", f>> >> : f \in CompanyInputs}
        \cup {<< <<"playerReputation", r>> >> : r \in CompanyInputs}
        \cup {<< <<"favor", f>>, <<"playerReputation", r>> >> :
                  f \in CompanyInputs, r \in CompanyInputs}
NextCompanyApi ==
    \/ \E f \in CompanyFiles : NonePending /\ uploadFile(f)
    \/ \E i \in 1..MaxUploads : processFile(i)
    \/ revertChanges
    \/ \E c \in ApiCompanies, u \in PartialUpdates : updateCompany(c, u)
SpecCompanyApi == Init /\ [][NextCompanyApi]_vars

\* one document and direct calls of the store's updateFaction
ApiFiles == {"b64Zero", "gzUnmarked"}
ApiNames == FactionNames \cup {"Netburners"}
StoreUpdates ==
    {<< <<"playerReputation", r>>, <<"favor", v>>, <<"isBanned", b>> >> :
        r \in ReputationInputs, v \in FavorInputs, b \in BOOLEAN}
NextFactionApi ==
    \/ \E f \in ApiFiles : NonePending /\ uploadFile(f)
    \/ \E i \in 1..MaxUploads : processFile(i)
    \/ revertChanges
    \/ \E name \in ApiNames, u \in StoreUpdates : updateFaction(name, u)
SpecFactionApi == Init /\ [][NextFactionApi]_vars

(***************************************************************************)
(* Structural comparison: a container as a tree of maps (unordered), lists *)
(* (ordered) and scalars.                                                   *)
(***************************************************************************)
CanonEntry(e) ==
    IF DOMAIN e = {"shape", "fields"}
    THEN [shape |-> e.shape, fields |-> OSet(e.fields)]
    ELSE e
CanonSection(key, section) ==
    IF section.kind = "null" THEN section
    ELSE IF key = "PlayerSave"
    THEN [section EXCEPT !.data =
            IF "jobs" \in DOMAIN @ THEN [@ EXCEPT !.jobs = OSet(@)] ELSE @]
    ELSE IF key \in {"FactionsSave", "AllServersSave"}
    THEN [kind |-> "object",
          entries |-> {<<section.entries[i][1], CanonEntry(section.entries[i][2])>> :
                          i \in 1..Len(section.entries)}]
    ELSE IF key = "CompaniesSave"
    THEN [kind |-> "object",
          entries |-> {<<section.entries[i][1], OSet(section.entries[i][2])>> :
                          i \in 1..Len(section.entries)}]
    ELSE IF "entries" \in DOMAIN section
    THEN [kind |-> "object", entries |-> OSet(section.entries)]
    ELSE section
Canon(s) ==
    [ctor |-> s.ctor,
     data |-> [key \in DOMAIN s.data |-> CanonSection(key, s.data[key])]]
DeepEqual(a, b) == Canon(a) = Canon(b)

(***************************************************************************)
(* Claims.                                                                  *)
(***************************************************************************)
Marker(d) == Count(d.exploits, EditSaveFile)
Exported == download' # download /\ download'.status = "ok"
InputOf(f) == Decode(Files[f].name, Files[f].bytes)
ReadBack(d) == Decode(d.name, d.blob)
Encoding(bytes) ==
    CASE bytes.kind = "gzip" -> "gzip"
      [] bytes.kind = "base64" -> "base64"
      [] bytes.kind = "json" -> "plain"
      [] OTHER -> "none"

\* C1: in every loaded document the editor-used marker occurs exactly once in
\* the exploit list of the baseline and of the working copy (after the load
\* and after any edits and revertAll).
C1_MarkerInBaselineAndWorking ==
    (ready /\ HasPlayerData(save)) =>
        (Marker(player) = 1 /\ Marker(originalPlayer) = 1)
\* a loaded document whose file had no marker
C1_Witness ==
    /\ ready /\ file = "gzUnmarked" /\ NonePending
    /\ Marker(PlayerOf(InputOf("gzUnmarked").val)) = 0

\* C2: an export made with no edit since the load reads back as the container
\* tree of the loaded file: same type tag, same sections, same payloads.
C2_RoundTrip ==
    [][Exported =>
         /\ ReadBack(download').ok
         /\ DeepEqual(ReadBack(download').val, InputOf(file).val)]_vars

\* C3: the export has the wire encoding of the loaded file.
C3_StickyEncoding ==
    [][Exported => Encoding(download'.blob) = Encoding(Files[file].bytes)]_vars

\* the inputs that fail every decode strategy, and the one with a foreign type tag
Undecodable == {"garbage", "gzAsJson", "jsonAsGz", "badSection"}
WrongTag == {"badTag"}
StoreEmpty == file = NoFile /\ originalSave = NoSave /\ modifiedSave = NoSave

\* C7: a load whose input cannot be decoded, or whose type tag is not the
\* sentinel, leaves the store with no file, no baseline and no working copy.
C7_FailedLoadInstallsNothing ==
    [][\A i \in 1..Len(loads) :
          (processFile(i) /\ loads[i].file \in Undecodable \cup WrongTag)
              => StoreEmpty']_vars
\* a load of each kind has run to its end
C7_Witness ==
    /\ Len(loads) = 2 /\ loads[1].done /\ loads[2].done
    /\ loads[1].file \in Undecodable /\ loads[2].file \in WrongTag
    /\ StoreEmpty

\* C8: once every load has finished, the remembered file and the baseline are
\* those of the most recent uploadFile call (nothing, if that load failed).
C8_LatestLoadWins ==
    (NonePending /\ Len(loads) > 0) =>
        LET last == loads[Len(loads)].file IN
        IF Outcome(last).ok
        THEN file = last /\ ready /\ originalSave = Outcome(last).val.originalSave
        ELSE StoreEmpty

\* C4: baseline and working share no array, and the baseline stays the
\* container decoded at load, whatever loads, edits and reverts have run.
C4_NoSharedStructure ==
    (ready /\ NonePending /\ file # NoFile) =>
        /\ arrayOwner.augmentations = "working"
        /\ arrayOwner.queuedAugmentations = "working"
        /\ originalSave = Outcome(file).val.originalSave

\* C5: hasChanges is true exactly when the working copy is not structurally
\* deep-equal to the baseline (maps unordered, lists ordered).
C5_HasChangesIsStructural ==
    ready => (hasChanges <=> ~DeepEqual(originalSave, modifiedSave))

\* C6: revertAll leaves the working copy deep-equal to the baseline with
\* hasChanges false, and a second revertAll would leave the same working copy.
C6_RevertAllIdempotent ==
    [][revertChanges =>
         /\ ~hasChanges'
         /\ DeepEqual(modifiedSave', originalSave')
         /\ Reverted(originalSave') = modifiedSave']_vars
\* a document that differed from its baseline since its load, reverted
C6_Witness ==
    /\ file = "gzUnmarked" /\ ready /\ NonePending
    /\ Marker(player) = 0 /\ ~hasChanges

StatusOf(v) == IF v.isMember THEN "joined" ELSE IF v.alreadyInvited THEN "invited" ELSE "none"
AllAtBaselineStatus ==
    \A i \in 1..Len(factionsData) :
        LET name == factionsData[i][1] IN
        /\ OHas(factionsOriginalData, name)
        /\ StatusOf(ViewOf(factionsData, name)) = StatusOf(ViewOf(factionsOriginalData, name))

\* C11: once every faction is back at its baseline status, player.factions and
\* player.factionInvitations equal the baseline's lists, order included.
C11_NetZeroTogglesRestoreLists ==
    (ready /\ HasPlayerData(save) /\ originalSave # NoSave /\ AllAtBaselineStatus) =>
        /\ player.factions = originalPlayer.factions
        /\ player.factionInvitations = originalPlayer.factionInvitations

\* C12: an update for a name with no entry in the working factions section
\* raises no error, creates the entry and writes the supplied reputation,
\* favor and banned values into it.
C12_AbsentEntryCreated ==
    [][\A name \in ApiNames, u \in StoreUpdates :
          (updateFaction(name, u) /\ ~OHas(FactionEntries(save), name)) =>
              /\ uncaught' = uncaught
              /\ OHas(FactionEntries(save)', name)
              /\ \A i \in 1..Len(u) :
                    /\ OHas(OGet(FactionEntries(save)', name).fields, u[i][1])
                    /\ OGet(OGet(FactionEntries(save)', name).fields, u[i][1]) = u[i][2]]_vars

\* the companies section of the file an export wrote
ExportedCompanies == ReadBack(download').val.data["CompaniesSave"].entries

\* C13: in the export, a company with no baseline entry whose reputation and
\* favor are 0 has no entry, and a company with a baseline entry whose
\* reputation and favor are 0 at export time has an explicit zero entry.
C13_ZeroSuppressionByBaseline ==
    [][Exported =>
         \A i \in 1..Len(ALL_COMPANIES) :
            LET c == ALL_COMPANIES[i] IN
            (ViewOf(companiesData, c) = CompanyView(ZeroCompany)) =>
                IF OHas(CompanyEntries(originalSave), c)
                THEN /\ OHas(ExportedCompanies, c)
                     /\ CompanyView(OGet(ExportedCompanies, c)) = CompanyView(ZeroCompany)
                ELSE ~OHas(ExportedCompanies, c)]_vars

\* the value a field has once the update is applied: the supplied one, or the
\* working copy's current one for a field the update leaves out
ValueAfter(u, c, key) ==
    IF OHas(u, key) THEN OGet(u, key)
    ELSE IF OHas(CompanyEntries(save), c) THEN FieldOr(OGet(CompanyEntries(save), c), key, 0)
    ELSE 0

\* C14: a company update deletes the working entry exactly when the company
\* has no baseline entry and the update leaves reputation and favor both at
\* zero; otherwise the entry exists afterwards and holds the resulting values.
C14_DeleteIffAbsentAndZero ==
    [][\A c \in ApiCompanies, u \in PartialUpdates :
          updateCompany(c, u) =>
              IF /\ ~OHas(CompanyEntries(originalSave), c)
                 /\ ValueAfter(u, c, "favor") = 0
                 /\ ValueAfter(u, c, "playerReputation") = 0
              THEN ~OHas(CompanyEntries(save)', c)
              ELSE /\ OHas(CompanyEntries(save)', c)
                   /\ CompanyView(OGet(CompanyEntries(save)', c)) =
                         [favor |-> ValueAfter(u, c, "favor"),
                          playerReputation |-> ValueAfter(u, c, "playerReputation")]]_vars

\* the records of a name, the NeuroFlux records and the other records of an array
RecordsOf(arr, name) == SelectSeq(arr, LAMBDA a : a.name = name)
NeuroFluxOf(arr) == SelectSeq(arr, IsNeuroFlux)
OthersOf(arr) == SelectSeq(arr, LAMBDA a : ~IsNeuroFlux(a))
RequestedLevels == {<<i, q>> \in (0..MaxLevel) \X (0..MaxLevel) : q >= i}

\* C15: a NeuroFlux update to levels I >= 0 and Q >= I leaves the installed
\* array with one NeuroFlux record at level I (none when I = 0) and the queued
\* array with exactly one NeuroFlux record at each level I+1 .. Q.
C15_NeuroFluxEncoding ==
    [][\A lv \in RequestedLevels :
          onUpdateNeuroFlux(lv[1], lv[2]) =>
             /\ NeuroFluxOf(player.augmentations') =
                   (IF lv[1] > 0 THEN <<Aug(NeuroFlux, lv[1])>> ELSE <<>>)
             /\ Len(NeuroFluxOf(player.queuedAugmentations')) = lv[2] - lv[1]
             /\ \A l \in (lv[1] + 1)..lv[2] :
                   Count(player.queuedAugmentations', Aug(NeuroFlux, l)) = 1]_vars

\* C16: a NeuroFlux update or revert, whatever the requested levels, leaves
\* the records of the other augmentations in both arrays as they were, in the
\* same order.
C16_OthersPreserved ==
    [][\A lv \in RequestedLevels :
          onUpdateNeuroFlux(lv[1], lv[2]) =>
             /\ OthersOf(player.augmentations') = OthersOf(player.augmentations)
             /\ OthersOf(player.queuedAugmentations') =
                   OthersOf(player.queuedAugmentations)]_vars

\* C17: after a status change of an ordinary augmentation has been written,
\* the target has a single record of level 1 in the array of the chosen
\* status and none in the other array (none in either for "none").
C17_TargetInMatchingArrayOnly ==
    [][Editable => \A n \in CardNames, st \in AugmentationStatuses :
          (AugmentationOnStatusChange(n, st) /\ confirmDialog' = NoDialog) =>
             /\ RecordsOf(player.augmentations', n) =
                   (IF st = "installed" THEN <<Aug(n, 1)>> ELSE <<>>)
             /\ RecordsOf(player.queuedAugmentations', n) =
                   (IF st = "queued" THEN <<Aug(n, 1)>> ELSE <<>>)]_vars

\* C18: a name with a record in the installed array and a record in the
\* queued array has a card, and the card shows it as installed.
C18_InstalledTakesPrecedence ==
    Editable =>
        \A n \in CardNames :
            (HasName(player.augmentations, n) /\ HasName(player.queuedAugmentations, n))
                => OGet(allAugmentations, n).status = "installed"

\* the catalog's augmentations that list the target among their prerequisites
DependentsOf(target) ==
    {DisplayName(k) : k \in {d \in DOMAIN AUGMENTATION_DATA :
        \E i \in 1..Len(AUGMENTATION_DATA[d].prereqs) :
            DisplayName(AUGMENTATION_DATA[d].prereqs[i]) = target}}

\* C19: the write of a confirmed change that makes the target queued or none
\* leaves no dependent installed, and leaves no dependent queued when the
\* target becomes none.
C19_CascadeInSameWrite ==
    [][handleConfirmChange =>
          \A d \in DependentsOf(confirmDialog.augName) :
             /\ confirmDialog.newStatus \in {"queued", "none"}
                   => ~HasName(player.augmentations', d)
             /\ confirmDialog.newStatus = "none"
                   => ~HasName(player.queuedAugmentations', d)]_vars

\* C20: raising the confirmation dialog writes nothing to the working copy,
\* and closing it without confirming writes nothing either: the working copy
\* is what it was before the change was requested.
C20_DeclineLeavesWorkingUnchanged ==
    [][(/\ \/ DialogClosed /\ confirmDialog' # NoDialog
           \/ ~DialogClosed /\ confirmDialog' = NoDialog /\ ~handleConfirmChange
        /\ ~(\E i \in 1..MaxUploads : processFile(i)))
          => /\ modifiedSave' = modifiedSave
             /\ arrayOwner' = arrayOwner]_vars
\* a change is waiting for its confirmation: the target and every listed
\* dependent still have the status they had when it was requested
C20_Witness ==
    /\ ~DialogClosed
    /\ Editable
    /\ confirmDialog.augName \in CardNames
    /\ OGet(allAugmentations, confirmDialog.augName).status # confirmDialog.newStatus
    /\ confirmDialog.affectedAugmentations # <<>>
    /\ \A i \in 1..Len(confirmDialog.affectedAugmentations) :
          LET a == confirmDialog.affectedAugmentations[i] IN
          OGet(allAugmentations, a.name).status = a.currentStatus

\* the identifier the export falls back on
FallbackBitNode == "BN1x0"

\* C24: every export produces its file, whatever the name of the loaded file;
\* where the name does not carry the identifier, the exported name carries
\* the fallback identifier.
C24_ExportForEveryFileName ==
    [][downloadFile =>
          /\ download'.status = "ok"
          /\ download'.name[4] =
                (IF NameMatch(Files[file].name).ok THEN NameMatch(Files[file].name).val
                 ELSE FallbackBitNode)]_vars

\* C28: a load that installs a document leaves the working copy deep-equal to
\* the baseline, with hasChanges false.
C28_FreshLoadIsClean ==
    [][\A i \in 1..Len(loads) :
          (processFile(i) /\ modifiedSave' # NoSave /\ modifiedSave' # modifiedSave)
              => /\ DeepEqual(modifiedSave', originalSave')
                 /\ ~hasChanges']_vars

\* every installed augmentation has its prerequisites installed, and every
\* queued one has them installed or queued
PrereqsOf(key) ==
    {DisplayName(AUGMENTATION_DATA[key].prereqs[i]) :
        i \in 1..Len(AUGMENTATION_DATA[key].prereqs)}
PrerequisitesMet(p) ==
    \A key \in DOMAIN AUGMENTATION_DATA :
        /\ HasName(p.augmentations, DisplayName(key))
              => \A r \in PrereqsOf(key) : HasName(p.augmentations, r)
        /\ HasName(p.queuedAugmentations, DisplayName(key))
              => \A r \in PrereqsOf(key) :
                    HasName(p.augmentations, r) \/ HasName(p.queuedAugmentations, r)

\* C29: a confirmed demotion or removal applied to a working copy in which
\* all prerequisites are met leaves a working copy in which all prerequisites
\* are met, also for the augmentations that depend on the target through
\* another dependent.
C29_CascadeKeepsPrerequisites ==
    [][(handleConfirmChange /\ PrerequisitesMet(player)) => PrerequisitesMet(player')]_vars

\* the status the two arrays give a name
ArrayStatus(p, name) ==
    IF HasName(p.augmentations, name) THEN "installed"
    ELSE IF HasName(p.queuedAugmentations, name) THEN "queued"
    ELSE "none"
AffectedNames(affectedAugs) == {affectedAugs[i].name : i \in 1..Len(affectedAugs)}
OthersUntouched(target, affected) ==
    /\ \A m \in CardNames \ ({target} \cup affected) :
          ArrayStatus(player', m) = ArrayStatus(player, m)
    /\ NeuroFluxOf(player.augmentations') = NeuroFluxOf(player.augmentations)
    /\ NeuroFluxOf(player.queuedAugmentations') = NeuroFluxOf(player.queuedAugmentations)

\* C30: the write of an update or revert of one ordinary augmentation leaves
\* the status of every augmentation other than the target and the dependents
\* of its confirmed cascade as it was, and leaves the NeuroFlux records as
\* they were.
C30_OnlyTargetAndCascadeChange ==
    [][Editable =>
          /\ \A n \in CardNames \cap AugmentationCards :
                (/\ \/ \E st \in AugmentationStatuses : AugmentationOnStatusChange(n, st)
                    \/ AugmentationHandleRevert(n)
                 /\ confirmDialog' = NoDialog) => OthersUntouched(n, {})
          /\ handleConfirmChange =>
                OthersUntouched(confirmDialog.augName,
                                AffectedNames(confirmDialog.affectedAugmentations))]_vars

\* the stored purchased flag of one server record
PurchasedFlag(s, hostname) ==
    FieldOr(OGet(ServerEntries(s), hostname).fields, "purchasedByPlayer", FALSE)
Hostnames(s) == {ServerEntries(s)[i][1] : i \in 1..Len(ServerEntries(s))}
ListedNames == {"pserv-0", "pserv-1"} \cup NewServerNames

(***************************************************************************)
(* C26: adding a hostname to the purchased list or removing one changes    *)
(* the purchased flag of no server record but the one with that hostname:  *)
(* every other record, home with its flag set and its name not in the list *)
(* included, keeps the flag it had.                                         *)
(***************************************************************************)
C26_OtherFlagsUntouched ==
    [][\A h \in ListedNames :
          (handleRemovePurchased(h) \/ handleAddPurchased(h)) =>
             \A g \in Hostnames(save) \ {Trim(h)} :
                PurchasedFlag(save', g) = PurchasedFlag(save, g)]_vars

(***************************************************************************)
(* C22: in a document loaded with every purchased flag agreeing with the   *)
(* player's list, whatever purchased-list additions, removals and resets,  *)
(* server updates and per-server reverts follow, a server record's flag is *)
(* set exactly when its hostname is in player.purchasedServers.            *)
(***************************************************************************)
FlagsAgree(s) ==
    \A h \in Hostnames(s) :
        PurchasedFlag(s, h) <=> Includes(ArrayOr(PlayerOf(s), "purchasedServers"), h)
C22_FlagIffListed ==
    (Editable /\ HasServers(save) /\ FlagsAgree(originalSave)) => FlagsAgree(save)

(***************************************************************************)
(* C21: removing a hostname from the purchased list leaves the server      *)
(* record of that hostname, when there is one, with its purchased flag     *)
(* false, and adding a hostname leaves the record of that hostname, when   *)
(* there is one, with its flag true; the write the two handlers share sets *)
(* every record's flag to its membership in the list it is given.          *)
(***************************************************************************)
CandidateLists == {<<"pserv-1", "pserv-0">>, <<"n00dles", "pserv-9">>}
StoredField(s, hostname, key) == OGet(OGet(ServerEntries(s), hostname).fields, key)
CardSubmits(h) ==
    \/ \E in \in ServerInputs : ServerOnChange(h, in[1], in[2])
    \/ \E v \in RamInputs : ServerOnSelectChange(h, v)
    \/ onMaxRam(h)
    \/ ServerHandleRevert(h)
C25_StoredValuesInRange ==
    [][\A h \in ServerCards :
          CardSubmits(h) =>
             /\ StoredField(save', h, "cpuCores") \in 1..8
             /\ StoredField(save', h, "maxRam") \in OSet(VALID_RAM_VALUES)]_vars

(***************************************************************************)
(* C27: when the working copy differs from the baseline in the backing     *)
(* fields of one entity only (its own record and its copies in the         *)
(* player's lists), the Reset of that entity's card leaves the working     *)
(* copy deep-equal to the baseline and hasChanges false.                    *)
(***************************************************************************)
FactionMasked(s, n) ==
    LET p == PlayerOf(s)
        masked == WithPlayer(s, [p EXCEPT !.factions = Without(@, n),
                                          !.factionInvitations = Without(@, n)])
    IN [masked EXCEPT !.data["FactionsSave"].entries = ODel(@, n)]
CompanyMasked(s, n) == [s EXCEPT !.data["CompaniesSave"].entries = ODel(@, n)]
ServerMasked(s, n) ==
    LET p == PlayerOf(s)
        masked == WithPlayer(s, [p EXCEPT !.purchasedServers = Without(@, n)])
    IN [masked EXCEPT !.data["AllServersSave"].entries = ODel(@, n)]
BackAtBaseline == DeepEqual(save, originalSave) /\ ~hasChanges
C27_RevertOfOnlyEditedEntity ==
    [][/\ \A n \in ReinsertNames :
             (/\ FactionHandleRevert(n)
              /\ Canon(FactionMasked(save, n)) = Canon(FactionMasked(originalSave, n)))
                => BackAtBaseline'
       /\ \A n \in ApiCompanies :
             (/\ CompanyHandleRevert(n)
              /\ Canon(CompanyMasked(save, n)) = Canon(CompanyMasked(originalSave, n)))
                => BackAtBaseline'
       /\ \A n \in ServerCards \cup PurchasedCards :
             (/\ ServerHandleRevert(n)
              /\ Canon(ServerMasked(save, n)) = Canon(ServerMasked(originalSave, n)))
                => BackAtBaseline']_vars

(***************************************************************************)
(* C23: a mutation and the writes it propagates are one step to every      *)
(* reader. While a handler has store calls of its chain still to make,     *)
(* the only step taken is that handler's next call, and the export reads a *)
(* working copy in which every server's purchased flag agrees with the     *)
(* purchased list and every faction entry's stored flags agree with the    *)
(* player's faction lists.                                                  *)
(***************************************************************************)
StoredFactionFlagsAgree(s) ==
    \A i \in 1..Len(FactionEntries(s)) :
        LET name == FactionEntries(s)[i][1]
            fields == FactionEntries(s)[i][2].fields
        IN /\ OHas(fields, "isMember") =>
                (OGet(fields, "isMember") <=> Includes(PlayerOf(s).factions, name))
           /\ OHas(fields, "alreadyInvited") =>
                (OGet(fields, "alreadyInvited")
                    <=> Includes(PlayerOf(s).factionInvitations, name))
ChainComplete(s) == FlagsAgree(s) /\ StoredFactionFlagsAgree(s)
====
